---- MODULE Spec2Model ----
(***************************************************************************)
(* Model of the book-content generation pipeline of                        *)
(* national-parks-kids-books: the Structured Model Call                    *)
(* (content_nodes.structured_llm_call), the seven stage functions of       *)
(* content_nodes.py, and the compiled LangGraph driver of                  *)
(* content_graph.py (graph / run_graph).                                   *)
(*                                                                         *)
(* Strings are sequences of tokens: str.startswith is the prefix relation  *)
(* on token sequences, an f-string is the concatenation of its pieces, the *)
(* empty string is << >>.  Optional[X] is a sequence of length 0 (None) or *)
(* 1 (the value).  A dict returned by a stage is a record whose DOMAIN is  *)
(* the set of keys of the dict.                                            *)
(***************************************************************************)
EXTENDS Integers, Sequences, FiniteSets, TLC

\* ------------------------------------------------------------------------
\* Program constants
\* ------------------------------------------------------------------------
TARGET_PAGE_COUNT == 12

\* variant: one more attempt than stop_after_attempt=3
stop_after_attempt_four == 3 + 1

stop_after_attempt == 3

\* ------------------------------------------------------------------------
\* Bounds of the model
\* ------------------------------------------------------------------------
\* a model behaviour is scripted for stop_after_attempt + ScriptExtra invocations
ScriptExtra == 1
\* longest chapter list the model returns
MaxChapters == 2
\* most content pages whose generation is made to fail in one run
MaxFailedPages == 1

ScriptLen == stop_after_attempt + ScriptExtra

\* ------------------------------------------------------------------------
\* Generic helpers
\* ------------------------------------------------------------------------
None == << >>

Some(v) == << v >>

IsNone(o) == Len(o) = 0

\* str.startswith on token sequences
StartsWith(s, prefix) ==
    /\ Len(prefix) <= Len(s)
    /\ \A i \in 1..Len(prefix) : s[i] = prefix[i]

RECURSIVE SumSeq(_)
SumSeq(s) == IF Len(s) = 0 THEN 0 ELSE Head(s) + SumSeq(Tail(s))

\* all sequences over S of length lo..hi
SeqsOf(S, lo, hi) == UNION { [1..n -> S] : n \in lo..hi }

\* ------------------------------------------------------------------------
\* Structured Model Call   (content_nodes.py: structured_llm_call)
\* ------------------------------------------------------------------------
\* What one invocation of the model can do: return a value of the requested
\* shape ("ok") or raise an exception of one of these classes.
TransientErrors == {"APIError", "RateLimitError", "TimeoutException"}

AttemptOutcomes ==
    {"ok"} \cup TransientErrors \cup {"OutputParserException", "ValueError", "OtherError"}

\* the tuple retry_exceptions of lines 75-81
retry_exceptions == TransientErrors

\* Runnable.with_retry is called with stop_after_attempt only (lines 85-87):
\* retry_exceptions and wait_strategy are never passed to it, so the library
\* default retry_if_exception_type = (Exception,) applies and every
\* exception class is retried.
retry_if_exception_type(exc) == TRUE

\* The exception raised by invocation k of the model; str(e) is its message.
AttemptError(script, k) ==
    [type |-> script[k], message |-> << script[k], "at attempt", ToString(k) >>]

\* structured_llm_with_retry.ainvoke: invoke the model until it returns, an
\* exception is not retried, or stop_after_attempt invocations were made
\* (the last exception is re-raised).
RECURSIVE ainvoke_with_retry(_, _)
ainvoke_with_retry(script, k) ==
    IF script[k] = "ok"
    THEN [invocations |-> k, raised |-> FALSE, error |-> [type |-> "none", message |-> << >>]]
    ELSE IF k >= stop_after_attempt \/ ~retry_if_exception_type(script[k])
         THEN [invocations |-> k, raised |-> TRUE, error |-> AttemptError(script, k)]
         ELSE ainvoke_with_retry(script, k + 1)

\* variant: the ValueError clause stands before the OutputParserException
\* clause and catches the parse errors too (OutputParserException is a
\* ValueError)
WrapError_value_first(e) ==
    IF e.type \in retry_exceptions
    THEN [type |-> "ConnectionError",
          message |-> << "LLM call failed after multiple retries:" >> \o e.message,
          cause |-> e]
    ELSE IF e.type \in { "ValueError", "OutputParserException" }
    THEN [type |-> "ValueError",
          message |-> << "Validation failed for LLM output:" >> \o e.message,
          cause |-> e]
    ELSE [type |-> "RuntimeError",
          message |-> << "An unexpected error occurred during LLM call:" >> \o e.message,
          cause |-> e]

\* the except clauses of lines 94-105, in their order
WrapError(e) ==
    IF e.type \in retry_exceptions
    THEN [type |-> "ConnectionError",
          message |-> << "LLM call failed after multiple retries:" >> \o e.message,
          cause |-> e]
    ELSE IF e.type = "OutputParserException"
    THEN [type |-> "OutputParserException",
          message |-> << "Failed to parse LLM output:" >> \o e.message,
          cause |-> e]
    ELSE IF e.type = "ValueError"
    THEN [type |-> "ValueError",
          message |-> << "Validation failed for LLM output:" >> \o e.message,
          cause |-> e]
    ELSE [type |-> "RuntimeError",
          message |-> << "An unexpected error occurred during LLM call:" >> \o e.message,
          cause |-> e]

NoError == [type |-> "none", message |-> << >>, cause |-> [type |-> "none", message |-> << >>]]

\* script[k] is what the k-th invocation of the model does.  The result
\* records whether the call returned or raised, the exception raised and the
\* number of invocations of the model.
structured_llm_call(script) ==
    LET r == ainvoke_with_retry(script, 1)
    IN  IF r.raised
        THEN [returned |-> FALSE, error |-> WrapError(r.error), invocations |-> r.invocations]
        ELSE [returned |-> TRUE, error |-> NoError, invocations |-> r.invocations]

ConstScript(o) == [k \in 1..ScriptLen |-> o]

Scripts == [1..ScriptLen -> AttemptOutcomes]

\* the invocation scripts used for the model calls of the pipeline stages
OkScript == ConstScript("ok")

PipelineScripts ==
    {OkScript, ConstScript("RateLimitError"), ConstScript("OutputParserException")}

\* ------------------------------------------------------------------------
\* Data model   (content_states.py)
\* ------------------------------------------------------------------------
Page(page_number, illustration_description, text) ==
    [page_number |-> page_number,
     illustration_description |-> illustration_description,
     text |-> text]

KidsBook(park_name, front_cover, pages, back_cover) ==
    [park_name |-> park_name, front_cover |-> front_cover,
     pages |-> pages, back_cover |-> back_cover]

StoryOutline == [narrative_flow |-> << "flow" >>, key_themes |-> << << "theme" >> >>]

\* theme and key_elements only feed the prompts and are left out
ChapterDefinition(chapter_number, page_count) ==
    [chapter_number |-> chapter_number, page_count |-> page_count]

\* variant: the concept keeps the page_number the model left unset
PageConcept_unnumbered(page_number, chapter_number, subject) ==
    [page_number |-> None, chapter_number |-> chapter_number, subject |-> subject]

PageConcept(page_number, chapter_number, subject) ==
    [page_number |-> page_number, chapter_number |-> chapter_number,
     subject |-> subject, core_idea |-> << "idea" >>]

\* GenerationState(park_name=..., research_content=...) with its defaults
GenerationState(park_name, research_content) ==
    [park_name |-> park_name,
     research_content |-> research_content,
     status |-> "initializing",
     story_outline |-> None,
     chapter_definitions |-> None,
     page_concepts |-> None,
     generated_pages |-> << >>,
     front_cover |-> None,
     back_cover |-> None,
     final_book |-> None,
     error_details |-> None]

\* ------------------------------------------------------------------------
\* Stage results
\* ------------------------------------------------------------------------
\* A stage function either returns a dict (update) or lets an exception
\* escape; invocations counts the invocations of the model it caused.
Return(update, n) ==
    [raises |-> FALSE, update |-> update, error |-> NoError, invocations |-> n]

Raise(error, n) ==
    [raises |-> TRUE, update |-> << >>, error |-> error, invocations |-> n]

ValueError(message) ==
    [type |-> "ValueError", message |-> message,
     cause |-> [type |-> "none", message |-> << >>]]

create_error_response(error, context) ==
    [status |-> "error",
     error_details |-> Some(<< context, "failed:" >> \o error.message)]

\* variant: the body runs without an except clause
TryExcept_unhandled(r, context) == r

\* try: <body> except Exception as e: return create_error_response(e, context)
TryExcept(r, context) ==
    IF r.raises
    THEN Return(create_error_response(r.error, context), r.invocations)
    ELSE r

\* ------------------------------------------------------------------------
\* Stage: define_narrative_arc
\* ------------------------------------------------------------------------
define_narrative_arc(state, script) ==
    LET c == structured_llm_call(script)
        body == IF ~c.returned
                THEN Raise(c.error, c.invocations)
                ELSE Return([story_outline |-> Some(StoryOutline),
                             status |-> "structuring_chapters"], c.invocations)
    IN  TryExcept(body, "Narrative Arc generation")

\* ------------------------------------------------------------------------
\* Stage: structure_chapters
\* ------------------------------------------------------------------------
PageCounts(chapters) == [i \in 1..Len(chapters) |-> chapters[i].page_count]

\* variant: the chapters keep the numbers the model gave them
Renumber_kept(chapters) ==
    [i \in 1..Len(chapters) |->
        ChapterDefinition(chapters[i].chapter_number, chapters[i].page_count)]

\* for i, chapter in enumerate(chapter_defs_result): chapter.chapter_number = i + 1
Renumber(chapters) ==
    [i \in 1..Len(chapters) |-> ChapterDefinition(i, chapters[i].page_count)]

\* variant: the total is not computed from the list
calculated_pages_unchecked(chapters) == TARGET_PAGE_COUNT

\* sum(ch.page_count for ch in chapter_defs_result)
calculated_pages(chapters) == SumSeq(PageCounts(chapters))

\* chapters is the list the model returns when the call succeeds
structure_chapters(state, script, chapters) ==
    IF IsNone(state.story_outline) \/ state.research_content = << >>
    THEN Return([status |-> "error",
                 error_details |->
                     Some(<< "Missing story outline or research for chapter structuring." >>)],
                0)
    ELSE
    LET c == structured_llm_call(script)
        body ==
            IF ~c.returned
            THEN Raise(c.error, c.invocations)
            ELSE IF calculated_pages(chapters) # TARGET_PAGE_COUNT
            THEN Raise(ValueError(<< "LLM generated chapters totaling",
                                     ToString(calculated_pages(chapters)),
                                     "pages, expected",
                                     ToString(TARGET_PAGE_COUNT) >>),
                       c.invocations)
            ELSE Return([chapter_definitions |-> Some(Renumber(chapters)),
                         status |-> "generating_concepts"], c.invocations)
    IN  TryExcept(body, "Chapter Structuring")

\* ------------------------------------------------------------------------
\* Stage: generate_page_concepts
\* ------------------------------------------------------------------------
\* the subject of the j-th concept the model returns for the chapter at
\* position ci of the list
Subject(ci, j) == << "subject", ToString(ci), ToString(j) >>

\* variant: a chapter answered with a wrong number of concepts is accepted
\* and the loop goes on to the next chapter
RECURSIVE concepts_loop_lenient(_, _, _, _, _)
concepts_loop_lenient(chapter_definitions, responses, ci, all_concepts, n) ==
    IF ci > Len(chapter_definitions)
    THEN IF Len(all_concepts) # TARGET_PAGE_COUNT
         THEN Raise(ValueError(<< "Total concepts generated",
                                  ToString(Len(all_concepts)),
                                  "does not match target",
                                  ToString(TARGET_PAGE_COUNT) >>), n)
         ELSE Return([page_concepts |-> Some(all_concepts),
                      status |-> "generating_pages"], n)
    ELSE
    LET chapter == chapter_definitions[ci]
        c == structured_llm_call(responses[ci].script)
        count == responses[ci].count
        page_num_counter == Len(all_concepts) + 1
    IN  IF ~c.returned
        THEN Raise(c.error, n + c.invocations)
        ELSE concepts_loop_lenient(chapter_definitions, responses, ci + 1,
                 all_concepts \o
                     [j \in 1..count |->
                         PageConcept(Some(page_num_counter + j - 1),
                                     Some(chapter.chapter_number),
                                     Subject(ci, j))],
                 n + c.invocations)

\* variant: every concept is stamped with the number of the first chapter
RECURSIVE concepts_loop_first_chapter(_, _, _, _, _)
concepts_loop_first_chapter(chapter_definitions, responses, ci, all_concepts, n) ==
    IF ci > Len(chapter_definitions)
    THEN IF Len(all_concepts) # TARGET_PAGE_COUNT
         THEN Raise(ValueError(<< "Total concepts generated",
                                  ToString(Len(all_concepts)),
                                  "does not match target",
                                  ToString(TARGET_PAGE_COUNT) >>), n)
         ELSE Return([page_concepts |-> Some(all_concepts),
                      status |-> "generating_pages"], n)
    ELSE
    LET chapter == chapter_definitions[ci]
        c == structured_llm_call(responses[ci].script)
        count == responses[ci].count
        page_num_counter == Len(all_concepts) + 1
    IN  IF ~c.returned
        THEN Raise(c.error, n + c.invocations)
        ELSE IF count # chapter.page_count
        THEN Raise(ValueError(<< "LLM did not return the expected",
                                 ToString(chapter.page_count),
                                 "concepts for chapter",
                                 ToString(chapter.chapter_number) >>),
                   n + c.invocations)
        ELSE concepts_loop_first_chapter(chapter_definitions, responses, ci + 1,
                 all_concepts \o
                     [j \in 1..count |->
                         PageConcept(Some(page_num_counter + j - 1),
                                     Some(chapter_definitions[1].chapter_number),
                                     Subject(ci, j))],
                 n + c.invocations)

\* responses[ci] = [script, count]: how the model call for the chapter at
\* position ci behaves and how many concepts it returns.
\* Loop of lines 211-241 from chapter position ci on, with the concepts
\* collected so far and the model invocations so far.
RECURSIVE concepts_loop(_, _, _, _, _)
concepts_loop(chapter_definitions, responses, ci, all_concepts, n) ==
    IF ci > Len(chapter_definitions)
    THEN IF Len(all_concepts) # TARGET_PAGE_COUNT
         THEN Raise(ValueError(<< "Total concepts generated",
                                  ToString(Len(all_concepts)),
                                  "does not match target",
                                  ToString(TARGET_PAGE_COUNT) >>), n)
         ELSE Return([page_concepts |-> Some(all_concepts),
                      status |-> "generating_pages"], n)
    ELSE
    LET chapter == chapter_definitions[ci]
        c == structured_llm_call(responses[ci].script)
        count == responses[ci].count
        page_num_counter == Len(all_concepts) + 1
    IN  IF ~c.returned
        THEN Raise(c.error, n + c.invocations)
        ELSE IF count # chapter.page_count
        THEN Raise(ValueError(<< "LLM did not return the expected",
                                 ToString(chapter.page_count),
                                 "concepts for chapter",
                                 ToString(chapter.chapter_number) >>),
                   n + c.invocations)
        ELSE concepts_loop(chapter_definitions, responses, ci + 1,
                 all_concepts \o
                     [j \in 1..count |->
                         PageConcept(Some(page_num_counter + j - 1),
                                     Some(chapter.chapter_number),
                                     Subject(ci, j))],
                 n + c.invocations)

generate_page_concepts(state, responses) ==
    IF \/ IsNone(state.chapter_definitions)
       \/ state.chapter_definitions[1] = << >>
       \/ state.research_content = << >>
    THEN Return([status |-> "error",
                 error_details |->
                     Some(<< "Missing chapter definitions or research for concept generation." >>)],
                0)
    ELSE TryExcept(concepts_loop(state.chapter_definitions[1], responses, 1, << >>, 0),
                   "Page Concept Generation")

\* ------------------------------------------------------------------------
\* Stage: generate_all_pages / generate_single_page_content
\* ------------------------------------------------------------------------
ErrorText == << "Error generating content" >>

\* variant: the returned Page keeps the page_number the model put in it
generate_single_page_content_echo(page_concept, response) ==
    LET page_number == IF ~IsNone(page_concept.page_number)
                       THEN page_concept.page_number[1] ELSE -1
    IN  IF page_number = -1
        THEN [generated_page |-> Page(Some(page_number),
                                      << "Error: Missing page number" >>, ErrorText),
              invocations |-> 0]
        ELSE
        LET c == structured_llm_call(response.script)
            body ==
              IF ~c.returned
              THEN Raise(c.error, c.invocations)
              ELSE IF ~StartsWith(response.illustration_description, page_concept.subject)
              THEN Raise(ValueError(<< "Page", ToString(page_number),
                           "illustration description validation failed: Does not start with subject" >>
                           \o page_concept.subject),
                         c.invocations)
              ELSE Return(Page(response.page_number, response.illustration_description,
                               response.text), c.invocations)
        IN  IF body.raises
            THEN [generated_page |-> Page(Some(page_number),
                                          << "Error:" >> \o body.error.message, ErrorText),
                  invocations |-> body.invocations]
            ELSE [generated_page |-> body.update, invocations |-> body.invocations]

\* variant: the illustration_description is not compared with the subject
generate_single_page_content_unvalidated(page_concept, response) ==
    LET page_number == IF ~IsNone(page_concept.page_number)
                       THEN page_concept.page_number[1] ELSE -1
    IN  IF page_number = -1
        THEN [generated_page |-> Page(Some(page_number),
                                      << "Error: Missing page number" >>, ErrorText),
              invocations |-> 0]
        ELSE
        LET c == structured_llm_call(response.script)
            body ==
              IF ~c.returned
              THEN Raise(c.error, c.invocations)
              ELSE Return(Page(Some(page_number), response.illustration_description,
                               response.text), c.invocations)
        IN  IF body.raises
            THEN [generated_page |-> Page(Some(page_number),
                                          << "Error:" >> \o body.error.message, ErrorText),
                  invocations |-> body.invocations]
            ELSE [generated_page |-> body.update, invocations |-> body.invocations]

\* response = [script, page_number, illustration_description, text]: how the
\* model call behaves and the Page it returns when it succeeds.
generate_single_page_content(page_concept, response) ==
    LET page_number == IF ~IsNone(page_concept.page_number)
                       THEN page_concept.page_number[1] ELSE -1
    IN  IF page_number = -1
        THEN [generated_page |-> Page(Some(page_number),
                                      << "Error: Missing page number" >>, ErrorText),
              invocations |-> 0]
        ELSE
        LET c == structured_llm_call(response.script)
            body ==
              IF ~c.returned
              THEN Raise(c.error, c.invocations)
              ELSE IF ~StartsWith(response.illustration_description, page_concept.subject)
              THEN Raise(ValueError(<< "Page", ToString(page_number),
                           "illustration description validation failed: Does not start with subject" >>
                           \o page_concept.subject),
                         c.invocations)
              ELSE Return(Page(Some(page_number), response.illustration_description,
                               response.text), c.invocations)
        IN  IF body.raises
            THEN [generated_page |-> Page(Some(page_number),
                                          << "Error:" >> \o body.error.message, ErrorText),
                  invocations |-> body.invocations]
            ELSE [generated_page |-> body.update, invocations |-> body.invocations]

\* variant: three tasks per batch
batch_size_three == 2 + 1

batch_size == 2

\* variant: a task whose page call failed contributes no page to its batch
RECURSIVE batches_loop_dropping(_, _, _, _)
batches_loop_dropping(page_concepts, responses, i, acc) ==
    IF i > Len(page_concepts)
    THEN acc
    ELSE
    LET last == IF i + batch_size - 1 <= Len(page_concepts)
                THEN i + batch_size - 1 ELSE Len(page_concepts)
        batch_results == [k \in 1..(last - i + 1) |->
                             generate_single_page_content(page_concepts[i + k - 1],
                                                          responses[i + k - 1])]
        batch_pages == [k \in 1..Len(batch_results) |-> batch_results[k].generated_page]
    IN  batches_loop_dropping(page_concepts, responses, i + batch_size,
            [generated_pages |-> acc.generated_pages \o
                 SelectSeq(batch_pages, LAMBDA p : p.text # ErrorText),
             invocations |-> acc.invocations +
                 SumSeq([k \in 1..Len(batch_results) |-> batch_results[k].invocations])])

\* Loop of lines 338-349: the batch that starts at position i (1-based) is
\* gathered, its pages are appended in the order of the batch.
RECURSIVE batches_loop(_, _, _, _)
batches_loop(page_concepts, responses, i, acc) ==
    IF i > Len(page_concepts)
    THEN acc
    ELSE
    LET last == IF i + batch_size - 1 <= Len(page_concepts)
                THEN i + batch_size - 1 ELSE Len(page_concepts)
        batch_results == [k \in 1..(last - i + 1) |->
                             generate_single_page_content(page_concepts[i + k - 1],
                                                          responses[i + k - 1])]
    IN  batches_loop(page_concepts, responses, i + batch_size,
            [generated_pages |-> acc.generated_pages \o
                 [k \in 1..Len(batch_results) |-> batch_results[k].generated_page],
             invocations |-> acc.invocations +
                 SumSeq([k \in 1..Len(batch_results) |-> batch_results[k].invocations])])

generate_all_pages(state, responses) ==
    IF \/ IsNone(state.page_concepts)
       \/ state.page_concepts[1] = << >>
       \/ state.research_content = << >>
    THEN Return([status |-> "error",
                 error_details |->
                     Some(<< "Missing page concepts or research for page generation." >>)],
                0)
    ELSE
    LET r == batches_loop(state.page_concepts[1], responses, 1,
                          [generated_pages |-> << >>, invocations |-> 0])
    IN  TryExcept(Return([generated_pages |-> r.generated_pages,
                          status |-> "aggregating_pages"], r.invocations),
                  "Page Generation")

\* ------------------------------------------------------------------------
\* Stage: aggregate_generated_pages
\* ------------------------------------------------------------------------
IsErrorPage(p) == StartsWith(p.text, ErrorText)

\* [p for p in s if p and not p.text.startswith("Error generating content")]
RECURSIVE SuccessfulPages(_)
SuccessfulPages(s) ==
    IF Len(s) = 0 THEN << >>
    ELSE IF ~IsErrorPage(Head(s)) THEN << Head(s) >> \o SuccessfulPages(Tail(s))
    ELSE SuccessfulPages(Tail(s))

\* variant: no page is taken for a failed page
FailedPages_none(s) == << >>

\* [p for p in s if not p or p.text.startswith("Error generating content")]
RECURSIVE FailedPages(_)
FailedPages(s) ==
    IF Len(s) = 0 THEN << >>
    ELSE IF IsErrorPage(Head(s)) THEN << Head(s) >> \o FailedPages(Tail(s))
    ELSE FailedPages(Tail(s))

\* variant: every page is sorted with the fallback key
SortKey_fallback(p) == 0 - 1

\* the sort key of line 387
SortKey(p) == IF ~IsNone(p.page_number) THEN p.page_number[1] ELSE -1

\* list.sort(key=...): stable, ascending
RECURSIVE InsertSorted(_, _)
InsertSorted(sorted, p) ==
    IF Len(sorted) = 0 THEN << p >>
    ELSE IF SortKey(sorted[Len(sorted)]) <= SortKey(p)
    THEN Append(sorted, p)
    ELSE Append(InsertSorted(SubSeq(sorted, 1, Len(sorted) - 1), p), sorted[Len(sorted)])

\* variant: the accepted pages are left in the order of the input
SortPages_unsorted(s) == s

RECURSIVE SortPages(_)
SortPages(s) ==
    IF Len(s) = 0 THEN << >>
    ELSE InsertSorted(SortPages(SubSeq(s, 1, Len(s) - 1)), s[Len(s)])

\* str(p.page_number) inside the printed list
PageNumberStr(p) == IF IsNone(p.page_number) THEN "None" ELSE ToString(p.page_number[1])

\* aggregate_generated_pages has no try/except of its own
aggregate_generated_pages(state) ==
    LET generated_pages_raw == state.generated_pages
        successful_pages == SuccessfulPages(generated_pages_raw)
        failed_pages == FailedPages(generated_pages_raw)
        failed_count == Len(failed_pages)
    IN  IF generated_pages_raw = << >>
        THEN Return([status |-> "error",
                     error_details |->
                         Some(<< "No pages were aggregated from generation step." >>)], 0)
        ELSE IF failed_count > 0
        THEN Return([status |-> "error",
                     error_details |->
                         Some(<< ToString(failed_count), "page(s) failed generation (Pages:" >>
                              \o [k \in 1..failed_count |-> PageNumberStr(failed_pages[k])]
                              \o << ")." >>)], 0)
        ELSE IF Len(successful_pages) # TARGET_PAGE_COUNT
        THEN Return([status |-> "error",
                     error_details |->
                         Some(<< "Expected", ToString(TARGET_PAGE_COUNT),
                                 "successful pages, but aggregated",
                                 ToString(Len(successful_pages)) >>)], 0)
        ELSE Return([generated_pages |-> SortPages(successful_pages),
                     status |-> "generating_covers"], 0)

\* ------------------------------------------------------------------------
\* Stage: generate_covers / generate_cover
\* ------------------------------------------------------------------------
ExactText(park_name) == park_name \o << "National", "Park" >>

\* variant: the front cover text of the model is kept as returned
generate_cover_uncorrected(park_name, is_front, page_number, response) ==
    LET c == structured_llm_call(response.script)
    IN  IF ~c.returned
        THEN Raise(c.error, c.invocations)
        ELSE Return(Page(Some(page_number), response.illustration_description,
                         response.text),
                    c.invocations)

\* variant: the cover keeps the page_number the model put in its answer
generate_cover_unnumbered(park_name, is_front, page_number, response) ==
    LET c == structured_llm_call(response.script)
        exact_text == ExactText(park_name)
    IN  IF ~c.returned
        THEN Raise(c.error, c.invocations)
        ELSE Return(Page(response.page_number, response.illustration_description,
                         IF is_front /\ response.text # exact_text
                         THEN exact_text ELSE response.text),
                    c.invocations)

\* response = [script, page_number, illustration_description, text]
generate_cover(park_name, is_front, page_number, response) ==
    LET c == structured_llm_call(response.script)
        exact_text == ExactText(park_name)
    IN  IF ~c.returned
        THEN Raise(c.error, c.invocations)
        ELSE Return(Page(Some(page_number), response.illustration_description,
                         IF is_front /\ response.text # exact_text
                         THEN exact_text ELSE response.text),
                    c.invocations)

\* variant: a cover that was generated is returned although the other failed
generate_covers_partial(state, front_response, back_response, front_first) ==
    LET target_back_cover_page_num == TARGET_PAGE_COUNT + 1
        front == generate_cover(state.park_name, TRUE, 0, front_response)
        back == generate_cover(state.park_name, FALSE, target_back_cover_page_num,
                               back_response)
        n == front.invocations + back.invocations
    IN  IF front.raises /\ back.raises
        THEN TryExcept(Raise(IF front_first THEN front.error ELSE back.error, n),
                       "Cover Generation")
        ELSE IF front.raises
        THEN Return([back_cover |-> Some(back.update), status |-> "error",
                     error_details |-> Some(<< "front cover failed" >>)], n)
        ELSE IF back.raises
        THEN Return([front_cover |-> Some(front.update), status |-> "error",
                     error_details |-> Some(<< "back cover failed" >>)], n)
        ELSE Return([front_cover |-> Some(front.update),
                     back_cover |-> Some(back.update),
                     status |-> "assembling"], n)

\* front_first: the front cover task finishes before the back cover task.
\* asyncio.gather propagates the first exception raised; the other task has
\* been started all the same.
generate_covers(state, front_response, back_response, front_first) ==
    LET target_back_cover_page_num == TARGET_PAGE_COUNT + 1
        front == generate_cover(state.park_name, TRUE, 0, front_response)
        back == generate_cover(state.park_name, FALSE, target_back_cover_page_num,
                               back_response)
        n == front.invocations + back.invocations
        body ==
            IF front.raises /\ (front_first \/ ~back.raises)
            THEN Raise(front.error, n)
            ELSE IF back.raises
            THEN Raise(back.error, n)
            ELSE Return([front_cover |-> Some(front.update),
                         back_cover |-> Some(back.update),
                         status |-> "assembling"], n)
    IN  TryExcept(body, "Cover Generation")

\* ------------------------------------------------------------------------
\* Stage: assemble_book
\* ------------------------------------------------------------------------
\* variant: the back cover is not looked at
assemble_book_any_back_cover(state) ==
    LET park_name == state.park_name
        front_cover == state.front_cover
        generated_pages == state.generated_pages
        back_cover == state.back_cover
        body ==
            IF park_name = << >>
            THEN Raise(ValueError(<< "Missing park_name" >>), 0)
            ELSE IF IsNone(front_cover) \/ front_cover[1].page_number # Some(0)
            THEN Raise(ValueError(<< "Invalid or missing front_cover (requires Page object with page_number 0)" >>), 0)
            ELSE IF Len(generated_pages) # TARGET_PAGE_COUNT
            THEN Raise(ValueError(<< "Invalid or missing content pages (expected",
                                     ToString(TARGET_PAGE_COUNT),
                                     "validated pages, found",
                                     ToString(Len(generated_pages)) >>), 0)
            ELSE Return([final_book |-> Some(KidsBook(park_name, front_cover[1],
                                                      generated_pages,
                                                      IF IsNone(back_cover)
                                                      THEN front_cover[1] ELSE back_cover[1])),
                         status |-> "completed"], 0)
    IN  TryExcept(body, "Book Assembly")

assemble_book(state) ==
    LET park_name == state.park_name
        front_cover == state.front_cover
        generated_pages == state.generated_pages
        back_cover == state.back_cover
        body ==
            IF park_name = << >>
            THEN Raise(ValueError(<< "Missing park_name" >>), 0)
            ELSE IF IsNone(front_cover) \/ front_cover[1].page_number # Some(0)
            THEN Raise(ValueError(<< "Invalid or missing front_cover (requires Page object with page_number 0)" >>), 0)
            ELSE IF Len(generated_pages) # TARGET_PAGE_COUNT
            THEN Raise(ValueError(<< "Invalid or missing content pages (expected",
                                     ToString(TARGET_PAGE_COUNT),
                                     "validated pages, found",
                                     ToString(Len(generated_pages)) >>), 0)
            ELSE IF IsNone(back_cover)
                    \/ back_cover[1].page_number # Some(TARGET_PAGE_COUNT + 1)
            THEN Raise(ValueError(<< "Invalid or missing back_cover (requires Page object with page_number",
                                     ToString(TARGET_PAGE_COUNT + 1) >>), 0)
            ELSE Return([final_book |-> Some(KidsBook(park_name, front_cover[1],
                                                      generated_pages, back_cover[1])),
                         status |-> "completed"], 0)
    IN  TryExcept(body, "Book Assembly")

\* ------------------------------------------------------------------------
\* Inputs of a run and answers of the model
\* ------------------------------------------------------------------------
\* a park name is the sequence of its words (park_name.split())
ParkNameInputs == { << >>, << "rocky", "mountain" >> }

ResearchInputs == { << >>, << "research" >> }

\* str.capitalize on the words used
Capitalize(word) ==
    CASE word = "rocky" -> "Rocky"
      [] word = "mountain" -> "Mountain"
      [] OTHER -> word

\* ' '.join(word.capitalize() for word in park_name.split())
NormalizeParkName(words) == [i \in 1..Len(words) |-> Capitalize(words[i])]

PageCountChoices == {-1, 0, 5, 7, 13}

\* the chapter_number the model gives the chapter at position i: the
\* position itself, or numbers with a duplicate and a gap
ChapterNumberings == { "sequential", "irregular" }

ModelChapterNumber(numbering, i) ==
    IF numbering = "sequential" THEN i ELSE IF i = 1 THEN 3 ELSE 2 * i - 1

\* the chapter lists the model may return
ChapterLists ==
    { [i \in 1..Len(counts) |->
          ChapterDefinition(ModelChapterNumber(numbering, i), counts[i])] :
        counts \in SeqsOf(PageCountChoices, 0, MaxChapters),
        numbering \in ChapterNumberings }

\* per chapter: the script of the call and by how much the number of
\* returned concepts differs from the requested page_count
ConceptAnswers(chapters) ==
    [1..Len(chapters) -> [script : PipelineScripts, delta : {-1, 0, 1}]]

ConceptResponses(chapters, answers) ==
    [i \in 1..Len(chapters) |->
        [script |-> answers[i].script,
         count |-> IF chapters[i].page_count + answers[i].delta >= 0
                   THEN chapters[i].page_count + answers[i].delta ELSE 0]]

\* The position of the first chapter for which the model returns a list
\* whose length is not the chapter's page_count, every chapter before it
\* having been answered with a list of the right length; 0 when the model
\* is never asked, or fails, before such a chapter.
RECURSIVE FirstMismatchFrom(_, _, _)
FirstMismatchFrom(chapters, responses, ci) ==
    IF ci > Len(chapters) THEN 0
    ELSE IF ~structured_llm_call(responses[ci].script).returned THEN 0
    ELSE IF responses[ci].count # chapters[ci].page_count THEN ci
    ELSE FirstMismatchFrom(chapters, responses, ci + 1)

FirstMismatch(chapters, responses) == FirstMismatchFrom(chapters, responses, 1)

\* ways the generation of one content page goes wrong
PageFaults == {"call_raises", "bad_prefix", "sentinel_text"}

\* the page_number the model echoes in a returned Page
EchoChoices == { None, Some(99) }

PageResponse(concept, fault, echo) ==
    [script |-> IF fault = "call_raises"
                THEN ConstScript("OutputParserException") ELSE OkScript,
     page_number |-> echo,
     illustration_description |->
         IF fault = "bad_prefix"
         THEN << "A scene with" >> \o concept.subject
         ELSE concept.subject \o << "in the park" >>,
     text |-> IF fault = "sentinel_text"
              THEN ErrorText \o << "is a sad story" >>
              ELSE << "Look at the park" >>]

\* the assignments of faults to at most MaxFailedPages of n pages
FaultMaps(n) ==
    UNION { [F -> PageFaults] : F \in { G \in SUBSET (1..n) : Cardinality(G) <= MaxFailedPages } }

PageResponses(concepts, faults, echo) ==
    [i \in 1..Len(concepts) |->
        PageResponse(concepts[i],
                     IF i \in DOMAIN faults THEN faults[i] ELSE "none", echo)]

CoverScripts == {OkScript, ConstScript("TimeoutException")}

\* the model follows the instructions of the cover prompt (requested
\* page_number, exact front cover text) or does not
CoverResponse(script, obeys, page_number, exact_text) ==
    [script |-> script,
     page_number |-> IF obeys THEN Some(page_number) ELSE Some(99),
     illustration_description |-> << "A cover" >>,
     text |-> IF obeys THEN exact_text ELSE << "Welcome to the park" >>]

\* ------------------------------------------------------------------------
\* Pipeline driver   (content_graph.py: workflow, graph, run_graph)
\* ------------------------------------------------------------------------
VARIABLES
    arg_park_name,          \* run_graph's argument park_name, as words
    arg_research_content,   \* run_graph's argument research_content
    node,                   \* the node the graph runs next, "__end__", or "returned"
    state,                  \* the GenerationState held by the graph
    final_state,            \* run_graph's local final_state
    escaped,                \* an exception left a stage and graph.astream
    executed,               \* the stage invocations so far and what they returned
    result,                 \* the value run_graph returned
    model_chapters,         \* the chapter list the model returned to structure_chapters
    concept_mismatch,       \* position of the first chapter answered with a wrong count, or 0
    page_faults,            \* what went wrong in the model's answers for the content pages
    cover_obeys,            \* whether the model's cover answers followed the prompt
    book_file,              \* book_text.json as written by generate_book_text.py
    exit_status,            \* the exit status of generate_book_text.py
    llm_phase,              \* "idle", "ready" or "done": a Structured Model Call on its own
    llm_script,             \* what the model does at each invocation of that call
    llm_result,             \* what that call returned or raised
    fan_phase,              \* "idle", "loop" or "done": the loop of generate_all_pages on its own
    fan_concepts,           \* page_concepts, the list generate_all_pages fans out
    fan_responses,          \* the model's answer to the call for each concept
    fan_i,                  \* the loop variable i, as a 1-based position
    fan_tasks,              \* batch_tasks: per task None while it runs, then its result
    fan_order,              \* the tasks of the current batch in their order of completion
    fan_started,            \* the concepts whose call was started, in the order of starting
    fan_generated_pages,    \* the local list generated_pages
    agg_phase,              \* "idle", "ready" or "done": aggregate_generated_pages on its own
    agg_pages,              \* state.generated_pages as passed to it
    agg_result,             \* what it returned
    asm_phase,              \* "idle", "ready" or "done": assemble_book on its own
    asm_state,              \* the GenerationState passed to it
    asm_result,             \* what it returned
    ill_phase,              \* "idle", "start", "run" or "done": generate_illustrations.py main
    ill_args,               \* the parsed command line: mode, page, skip_covers, force
    ill_book,               \* book_text.json, when the file exists
    ill_files,              \* the image files that exist
    ill_failed_file,        \* failed_illustrations.json, when the file exists
    ill_todo,               \* the iterations main has still to make
    current_failures,       \* main's list current_failures
    ill_log,                \* the calls of generate_illustration_for_page made so far
    ill_exit,               \* the exit status of the script
    cov_phase,              \* "idle", "ready", "running" or "done": generate_covers on its own
    cov_state,              \* the GenerationState passed to it
    cov_responses,          \* the model's answers to the front and the back cover call
    cov_order,              \* the cover tasks that have finished, in order of completion
    cov_result              \* what the stage returned

vars == << arg_park_name, arg_research_content, node, state, final_state,
           escaped, executed, result, model_chapters, concept_mismatch, page_faults,
           cover_obeys, book_file, exit_status,
           llm_phase, llm_script, llm_result,
           fan_phase, fan_concepts, fan_responses, fan_i, fan_tasks, fan_order,
           fan_started, fan_generated_pages,
           agg_phase, agg_pages, agg_result,
           asm_phase, asm_state, asm_result,
           ill_phase, ill_args, ill_book, ill_files, ill_failed_file, ill_todo,
           current_failures, ill_log, ill_exit,
           cov_phase, cov_state, cov_responses, cov_order, cov_result >>

pipeline_vars == << arg_park_name, arg_research_content, node, state, final_state,
                    escaped, executed, result, model_chapters, concept_mismatch,
                    page_faults, cover_obeys, book_file, exit_status >>

llm_vars == << llm_phase, llm_script, llm_result >>

fan_vars == << fan_phase, fan_concepts, fan_responses, fan_i, fan_tasks, fan_order,
               fan_started, fan_generated_pages >>

agg_vars == << agg_phase, agg_pages, agg_result >>

asm_vars == << asm_phase, asm_state, asm_result >>

ill_vars == << ill_phase, ill_args, ill_book, ill_files, ill_failed_file, ill_todo,
               current_failures, ill_log, ill_exit >>

Nodes == << "define_narrative_arc", "structure_chapters", "generate_page_concepts",
            "generate_all_pages", "aggregate_generated_pages", "generate_covers",
            "assemble_book" >>

\* The edges of workflow when graph = workflow.compile() runs (lines 33-46).
\* The conditional edges of error_router are added to workflow at line 56,
\* after the compilation, and are no part of the compiled graph; they would
\* only add targets after define_narrative_arc, whose plain edge to
\* structure_chapters stays in any case.
Edge_retrying(n) ==
    CASE n = "define_narrative_arc" -> "structure_chapters"
      [] n = "structure_chapters" -> "generate_page_concepts"
      [] n = "generate_page_concepts" -> "generate_all_pages"
      [] n = "generate_all_pages" -> "aggregate_generated_pages"
      [] n = "aggregate_generated_pages" -> "generate_covers"
      [] n = "generate_covers" -> "generate_covers"
      [] n = "assemble_book" -> "__end__"

Edge(n) ==
    CASE n = "define_narrative_arc" -> "structure_chapters"
      [] n = "structure_chapters" -> "generate_page_concepts"
      [] n = "generate_page_concepts" -> "generate_all_pages"
      [] n = "generate_all_pages" -> "aggregate_generated_pages"
      [] n = "aggregate_generated_pages" -> "generate_covers"
      [] n = "generate_covers" -> "assemble_book"
      [] n = "assemble_book" -> "__end__"

\* the graph writes the keys of the returned dict into the state
Merge(s, update) ==
    [f \in DOMAIN s |-> IF f \in DOMAIN update THEN update[f] ELSE s[f]]

IdleResult == [returned |-> FALSE, error |-> NoError, invocations |-> 0]

LLMIdle ==
    /\ llm_phase = "idle"
    /\ llm_script = OkScript
    /\ llm_result = IdleResult

FanIdle ==
    /\ fan_phase = "idle"
    /\ fan_concepts = << >>
    /\ fan_responses = << >>
    /\ fan_i = 1
    /\ fan_tasks = << >>
    /\ fan_order = << >>
    /\ fan_started = << >>
    /\ fan_generated_pages = << >>

AggIdle ==
    /\ agg_phase = "idle"
    /\ agg_pages = << >>
    /\ agg_result = Return(<< >>, 0)

AsmIdle ==
    /\ asm_phase = "idle"
    /\ asm_state = GenerationState(<< >>, << >>)
    /\ asm_result = Return(<< >>, 0)

cov_vars == << cov_phase, cov_state, cov_responses, cov_order, cov_result >>

CovIdle ==
    /\ cov_phase = "idle"
    /\ cov_state = GenerationState(<< >>, << >>)
    /\ cov_responses = << >>
    /\ cov_order = << >>
    /\ cov_result = Return(<< >>, 0)

IllIdle ==
    /\ ill_phase = "idle"
    /\ ill_args = [mode |-> "batch", page |-> 0, skip_covers |-> FALSE, force |-> FALSE]
    /\ ill_book = None
    /\ ill_files = {}
    /\ ill_failed_file = None
    /\ ill_todo = << >>
    /\ current_failures = << >>
    /\ ill_log = << >>
    /\ ill_exit = None

\* run_graph up to the start of graph.astream (lines 70-84)
Init ==
    /\ arg_park_name \in ParkNameInputs
    /\ arg_research_content \in ResearchInputs
    /\ state = GenerationState(NormalizeParkName(arg_park_name), arg_research_content)
    /\ node = "define_narrative_arc"
    /\ final_state = None
    /\ escaped = FALSE
    /\ executed = << >>
    /\ result = None
    /\ model_chapters = None
    /\ concept_mismatch = 0
    /\ page_faults = None
    /\ cover_obeys = None
    /\ book_file = None
    /\ exit_status = None
    /\ LLMIdle
    /\ CovIdle
    /\ IllIdle
    /\ AsmIdle
    /\ FanIdle
    /\ AggIdle

\* One superstep of graph.astream: node n runs and returns r.  The event
\* {n: update} is what run_graph keeps as final_state (lines 84-89); an
\* exception that leaves the stage ends the stream (lines 93-100).
Step(n, r) ==
    /\ executed' = Append(executed, [node |-> n, raises |-> r.raises,
                                     update |-> r.update,
                                     invocations |-> r.invocations])
    /\ IF r.raises
       THEN /\ escaped' = TRUE
            /\ node' = "__end__"
            /\ UNCHANGED << state, final_state >>
       ELSE /\ state' = Merge(state, r.update)
            /\ final_state' = Some(r.update)
            /\ node' = Edge(n)
            /\ UNCHANGED escaped
    /\ UNCHANGED << arg_park_name, arg_research_content, result, book_file,
                    exit_status, llm_vars, fan_vars, agg_vars, asm_vars, ill_vars,
                    cov_vars >>

DefineNarrativeArc ==
    /\ node = "define_narrative_arc"
    /\ \E script \in PipelineScripts :
           Step("define_narrative_arc", define_narrative_arc(state, script))
    /\ UNCHANGED << model_chapters, concept_mismatch, page_faults, cover_obeys >>

\* model_chapters keeps the list the model returned, when the stage got one
StructureChapters ==
    /\ node = "structure_chapters"
    /\ \E script \in PipelineScripts, chapters \in ChapterLists :
        /\ Step("structure_chapters", structure_chapters(state, script, chapters))
        /\ model_chapters' =
               IF ~IsNone(state.story_outline) /\ state.research_content # << >>
                  /\ structured_llm_call(script).returned
               THEN Some(chapters) ELSE None
    /\ UNCHANGED << concept_mismatch, page_faults, cover_obeys >>

GeneratePageConcepts ==
    /\ node = "generate_page_concepts"
    /\ LET chapters == IF IsNone(state.chapter_definitions)
                       THEN << >> ELSE state.chapter_definitions[1]
       IN  \E answers \in ConceptAnswers(chapters) :
               /\ Step("generate_page_concepts",
                       generate_page_concepts(state, ConceptResponses(chapters, answers)))
               /\ concept_mismatch' =
                      IF state.research_content # << >>
                      THEN FirstMismatch(chapters, ConceptResponses(chapters, answers))
                      ELSE 0
    /\ UNCHANGED << model_chapters, page_faults, cover_obeys >>

GenerateAllPages ==
    /\ node = "generate_all_pages"
    /\ LET concepts == IF IsNone(state.page_concepts)
                       THEN << >> ELSE state.page_concepts[1]
       IN  \E faults \in FaultMaps(Len(concepts)), echo \in EchoChoices :
               /\ Step("generate_all_pages",
                       generate_all_pages(state, PageResponses(concepts, faults, echo)))
               /\ page_faults' = IF concepts # << >> /\ state.research_content # << >>
                                 THEN Some(faults) ELSE None
    /\ UNCHANGED << model_chapters, concept_mismatch, cover_obeys >>

AggregateGeneratedPages ==
    /\ node = "aggregate_generated_pages"
    /\ Step("aggregate_generated_pages", aggregate_generated_pages(state))
    /\ UNCHANGED << model_chapters, concept_mismatch, page_faults, cover_obeys >>

GenerateCovers ==
    /\ node = "generate_covers"
    /\ \E fs \in CoverScripts, bs \in CoverScripts, obeys \in BOOLEAN :
          \E front_first \in IF fs # OkScript /\ bs # OkScript THEN BOOLEAN ELSE { TRUE } :
           /\ Step("generate_covers",
                   generate_covers(state,
                       CoverResponse(fs, obeys, 0, ExactText(state.park_name)),
                       CoverResponse(bs, obeys, TARGET_PAGE_COUNT + 1, << "Goodbye" >>),
                       front_first))
           /\ cover_obeys' = IF fs = OkScript /\ bs = OkScript THEN Some(obeys) ELSE None
    /\ UNCHANGED << model_chapters, concept_mismatch, page_faults >>

AssembleBook ==
    /\ node = "assemble_book"
    /\ Step("assemble_book", assemble_book(state))
    /\ UNCHANGED << model_chapters, concept_mismatch, page_faults, cover_obeys >>

\* run_graph after the stream has ended (lines 91-120)
RunGraphReturn ==
    /\ node = "__end__"
    /\ node' = "returned"
    /\ result' = IF escaped THEN None ELSE final_state
    /\ UNCHANGED << arg_park_name, arg_research_content, state, final_state,
                    escaped, executed, model_chapters, concept_mismatch,
                    page_faults, cover_obeys, book_file, exit_status,
                    llm_vars, fan_vars, agg_vars, asm_vars, ill_vars, cov_vars >>

\* generate_book_text.py main after run_graph has returned (lines 64-83):
\* without a final_book in the returned dict the script exits with status
\* 1; otherwise it dumps the book to book_text.json and ends normally
WriteBookText ==
    /\ node = "returned"
    /\ node' = "exited"
    /\ IF IsNone(result) \/ "final_book" \notin DOMAIN result[1]
       THEN /\ exit_status' = Some(1)
            /\ UNCHANGED book_file
       ELSE /\ book_file' = result[1].final_book
            /\ exit_status' = Some(0)
    /\ UNCHANGED << arg_park_name, arg_research_content, state, final_state,
                    escaped, executed, result, model_chapters, concept_mismatch,
                    page_faults, cover_obeys, llm_vars, fan_vars, agg_vars, asm_vars,
                    ill_vars, cov_vars >>

Next ==
    \/ DefineNarrativeArc
    \/ StructureChapters
    \/ GeneratePageConcepts
    \/ GenerateAllPages
    \/ AggregateGeneratedPages
    \/ GenerateCovers
    \/ AssembleBook
    \/ RunGraphReturn
    \/ WriteBookText

Spec == Init /\ [][Next]_vars

\* ------------------------------------------------------------------------
\* A Structured Model Call on its own
\* ------------------------------------------------------------------------
PipelineIdle ==
    /\ arg_park_name = << >>
    /\ arg_research_content = << >>
    /\ state = GenerationState(<< >>, << >>)
    /\ node = "returned"
    /\ final_state = None
    /\ escaped = FALSE
    /\ executed = << >>
    /\ result = None
    /\ model_chapters = None
    /\ concept_mismatch = 0
    /\ page_faults = None
    /\ cover_obeys = None
    /\ book_file = None
    /\ exit_status = None

InitLLM ==
    /\ PipelineIdle
    /\ CovIdle
    /\ IllIdle
    /\ AsmIdle
    /\ FanIdle
    /\ AggIdle
    /\ llm_phase = "ready"
    /\ llm_script \in Scripts
    /\ llm_result = IdleResult

CallLLM ==
    /\ llm_phase = "ready"
    /\ llm_result' = structured_llm_call(llm_script)
    /\ llm_phase' = "done"
    /\ UNCHANGED << llm_script, pipeline_vars, fan_vars, agg_vars, asm_vars, ill_vars,
                    cov_vars >>

NextLLM == CallLLM

SpecLLM == InitLLM /\ [][NextLLM]_vars

\* ------------------------------------------------------------------------
\* The loop of generate_all_pages on its own, one task completion at a time
\* ------------------------------------------------------------------------
\* the concept lists generate_page_concepts stores for two chapters
FanoutChapters ==
    { << ChapterDefinition(1, a), ChapterDefinition(2, TARGET_PAGE_COUNT - a) >> :
        a \in { c \in PageCountChoices : c > 0 /\ c < TARGET_PAGE_COUNT } }

FanoutConcepts ==
    { concepts_loop(chapters,
                    [ci \in 1..Len(chapters) |->
                        [script |-> OkScript, count |-> chapters[ci].page_count]],
                    1, << >>, 0).update.page_concepts[1] :
        chapters \in FanoutChapters }

\* asyncio.gather(*batch_tasks): the results of the tasks in the order of
\* the awaitables passed to it, whatever the order of their completion
gather_as_completed(tasks, order) == [j \in 1..Len(order) |-> tasks[order[j]][1]]

gather(tasks, order) == [k \in 1..Len(tasks) |-> tasks[k][1]]

InitFanout ==
    /\ PipelineIdle
    /\ CovIdle
    /\ IllIdle
    /\ AsmIdle
    /\ LLMIdle
    /\ AggIdle
    /\ fan_phase = "loop"
    /\ fan_concepts \in FanoutConcepts
    /\ \E faults \in FaultMaps(TARGET_PAGE_COUNT), echo \in EchoChoices :
           fan_responses = PageResponses(fan_concepts, faults, echo)
    /\ fan_i = 1
    /\ fan_tasks = << >>
    /\ fan_order = << >>
    /\ fan_started = << >>
    /\ fan_generated_pages = << >>

\* lines 339-345: the coroutines of the batch at i are created and gather
\* schedules them; each runs up to its model call
SubmitBatch ==
    /\ fan_phase = "loop"
    /\ fan_tasks = << >>
    /\ fan_i <= Len(fan_concepts)
    /\ LET last == IF fan_i + batch_size - 1 <= Len(fan_concepts)
                   THEN fan_i + batch_size - 1 ELSE Len(fan_concepts)
       IN  /\ fan_tasks' = [k \in 1..(last - fan_i + 1) |-> None]
           /\ fan_started' = fan_started \o [k \in 1..(last - fan_i + 1) |-> fan_i + k - 1]
    /\ fan_order' = << >>
    /\ UNCHANGED << fan_phase, fan_concepts, fan_responses, fan_i, fan_generated_pages,
                    pipeline_vars, llm_vars, agg_vars, asm_vars, ill_vars, cov_vars >>

\* one of the outstanding tasks of the batch finishes
\* generate_single_page_content
CompleteTask ==
    /\ fan_phase = "loop"
    /\ \E k \in DOMAIN fan_tasks :
        /\ fan_tasks[k] = None
        /\ fan_tasks' = [fan_tasks EXCEPT ![k] =
               Some(generate_single_page_content(fan_concepts[fan_i + k - 1],
                                                 fan_responses[fan_i + k - 1]))]
        /\ fan_order' = Append(fan_order, k)
    /\ UNCHANGED << fan_phase, fan_concepts, fan_responses, fan_i, fan_started,
                    fan_generated_pages, pipeline_vars, llm_vars, agg_vars, asm_vars,
                    ill_vars, cov_vars >>

\* lines 345-349: gather returns when every task of the batch is done; the
\* pages of its results are appended
GatherReturns ==
    /\ fan_phase = "loop"
    /\ fan_tasks # << >>
    /\ \A k \in DOMAIN fan_tasks : fan_tasks[k] # None
    /\ LET batch_results == gather(fan_tasks, fan_order)
       IN  fan_generated_pages' = fan_generated_pages \o
               [k \in 1..Len(batch_results) |-> batch_results[k].generated_page]
    /\ fan_i' = fan_i + batch_size
    /\ fan_tasks' = << >>
    /\ UNCHANGED << fan_phase, fan_concepts, fan_responses, fan_order, fan_started,
                    pipeline_vars, llm_vars, agg_vars, asm_vars, ill_vars, cov_vars >>

\* line 353: the loop is over
ReturnPages ==
    /\ fan_phase = "loop"
    /\ fan_tasks = << >>
    /\ fan_i > Len(fan_concepts)
    /\ fan_phase' = "done"
    /\ UNCHANGED << fan_concepts, fan_responses, fan_i, fan_tasks, fan_order, fan_started,
                    fan_generated_pages, pipeline_vars, llm_vars, agg_vars, asm_vars,
                    ill_vars, cov_vars >>

NextFanout ==
    \/ SubmitBatch
    \/ CompleteTask
    \/ GatherReturns
    \/ ReturnPages

SpecFanout == InitFanout /\ [][NextFanout]_vars

\* ------------------------------------------------------------------------
\* aggregate_generated_pages on its own
\* ------------------------------------------------------------------------
\* the lengths of the page lists passed to it
AggregateLengths ==
    { 0, TARGET_PAGE_COUNT - 1, TARGET_PAGE_COUNT, TARGET_PAGE_COUNT + 1 }

\* the page numbers of a list of n pages: ascending, descending, or
\* ascending with two neighbours exchanged
NumberOrders(n) ==
    { [k \in 1..n |-> k], [k \in 1..n |-> n + 1 - k] }
        \cup { [k \in 1..n |-> IF k = x THEN x + 1 ELSE IF k = x + 1 THEN x ELSE k] :
                  x \in 1..(n - 1) }

\* a list of pages with the given numbers, the pages at the positions in
\* failed being error placeholders
PageList(numbers, failed) ==
    [k \in 1..Len(numbers) |->
        IF k \in failed
        THEN Page(Some(numbers[k]), << "Error:", "the page call failed" >>, ErrorText)
        ELSE Page(Some(numbers[k]),
                  << "subject", ToString(numbers[k]), "in the park" >>,
                  << "Look at the park" >>)]

AggregateInputs ==
    { PageList(numbers, failed) :
        numbers \in UNION { NumberOrders(n) : n \in AggregateLengths },
        failed \in { F \in SUBSET (1..(TARGET_PAGE_COUNT + 1)) :
                        Cardinality(F) <= MaxFailedPages } }

InitAggregate ==
    /\ PipelineIdle
    /\ CovIdle
    /\ IllIdle
    /\ AsmIdle
    /\ LLMIdle
    /\ FanIdle
    /\ agg_phase = "ready"
    /\ agg_pages \in AggregateInputs
    /\ agg_result = Return(<< >>, 0)

Aggregate ==
    /\ agg_phase = "ready"
    /\ agg_result' = aggregate_generated_pages(
                         [GenerationState(<< "Zion" >>, << "research" >>)
                             EXCEPT !.generated_pages = agg_pages])
    /\ agg_phase' = "done"
    /\ UNCHANGED << agg_pages, pipeline_vars, llm_vars, fan_vars, asm_vars, ill_vars,
                    cov_vars >>

NextAggregate == Aggregate

SpecAggregate == InitAggregate /\ [][NextAggregate]_vars

\* ------------------------------------------------------------------------
\* assemble_book on its own
\* ------------------------------------------------------------------------
\* a cover with the given page_number
CoverPage(page_number) == Page(Some(page_number), << "A cover" >>, << "Cover text" >>)

\* the page numbers of TARGET_PAGE_COUNT pages with a number occurring
\* twice, or with a number outside 1..TARGET_PAGE_COUNT
IrregularNumbers ==
    { [k \in 1..TARGET_PAGE_COUNT |-> IF k = 2 THEN 1 ELSE k],
      [k \in 1..TARGET_PAGE_COUNT |-> k + 1],
      [k \in 1..TARGET_PAGE_COUNT |-> k - 1] }

AssemblePages ==
    { PageList(numbers, {}) :
        numbers \in IrregularNumbers \cup UNION { NumberOrders(n) : n \in AggregateLengths } }

AssembleInputs ==
    { [GenerationState(park_name, << "research" >>)
          EXCEPT !.front_cover = front_cover,
                 !.generated_pages = generated_pages,
                 !.back_cover = back_cover] :
        park_name \in ParkNameInputs,
        front_cover \in { None, Some(CoverPage(0)), Some(CoverPage(1)) },
        generated_pages \in AssemblePages,
        back_cover \in { None, Some(CoverPage(TARGET_PAGE_COUNT + 1)),
                         Some(CoverPage(TARGET_PAGE_COUNT)) } }

InitAssemble ==
    /\ PipelineIdle
    /\ CovIdle
    /\ IllIdle
    /\ LLMIdle
    /\ FanIdle
    /\ AggIdle
    /\ asm_phase = "ready"
    /\ asm_state \in AssembleInputs
    /\ asm_result = Return(<< >>, 0)

Assemble ==
    /\ asm_phase = "ready"
    /\ asm_result' = assemble_book(asm_state)
    /\ asm_phase' = "done"
    /\ UNCHANGED << asm_state, pipeline_vars, llm_vars, fan_vars, agg_vars, ill_vars,
                    cov_vars >>

NextAssemble == Assemble

SpecAssemble == InitAssemble /\ [][NextAssemble]_vars

(***************************************************************************)
(* generate_illustrations.py: the illustration script.  It reads           *)
(* book_text.json, calls the image service once per attempt, writes one    *)
(* image file per page and records the pages that failed.                  *)
(***************************************************************************)

\* --retry-count, default 2 (line 150): a page gets retry_count + 1 attempts
retry_count == 2

\* How many pages of one run the image service may give trouble on
MaxFailedIllustrations == 1

\* The image files: output_dir / name (lines 47-50)
FrontCoverFile == << "front_cover.jpg" >>

BackCoverFile == << "back_cover.jpg" >>

PageFile(page_number) == << "page_NN.jpg", page_number >>

\* One page of book_text.json, as model_dump wrote it
BookPage(page_number) ==
    [ page_number |-> page_number,
      illustration_description |-> << "picture", page_number >> ]

\* book_text.json of a complete book: covers 0 and TARGET_PAGE_COUNT + 1,
\* content pages 1..TARGET_PAGE_COUNT
BookContent ==
    [ front_cover |-> BookPage(0),
      pages |-> [ i \in 1..TARGET_PAGE_COUNT |-> BookPage(i) ],
      back_cover |-> BookPage(TARGET_PAGE_COUNT + 1) ]

AllImageFiles ==
    { FrontCoverFile, BackCoverFile } \cup { PageFile(n) : n \in 1..TARGET_PAGE_COUNT }

\* generate_image's answers to the attempts of one page: the first `errors`
\* attempts answer "error", the later ones "success"
ImageScript(errors) ==
    [ k \in 1..(retry_count + 1) |-> IF k <= errors THEN "error" ELSE "success" ]

ImageOutcomes == 0..(retry_count + 1)

\* result["error"] of the k-th call of generate_image for a page
ImageError(k) == << "image error", ToString(k) >>

OutputPath(page_number, is_cover) ==
    IF is_cover
    THEN (IF page_number = 0 THEN FrontCoverFile ELSE BackCoverFile)
    ELSE PageFile(page_number)

\* variant: a failed page reports the error of its first call
RECURSIVE attempts_loop_first_error(_, _)
attempts_loop_first_error(script, attempt) ==
    IF attempt > retry_count
    THEN [ success |-> FALSE, error |-> << "Max retries exceeded" >>, calls |-> attempt ]
    ELSE IF script[attempt + 1] = "success"
         THEN [ success |-> TRUE, error |-> << >>, calls |-> attempt + 1 ]
         ELSE IF attempt = retry_count
              THEN [ success |-> FALSE, error |-> ImageError(1),
                     calls |-> attempt + 1 ]
              ELSE attempts_loop_first_error(script, attempt + 1)

\* The loop of lines 58-88, from attempt `attempt` (0-based) on
RECURSIVE attempts_loop(_, _)
attempts_loop(script, attempt) ==
    IF attempt > retry_count
    THEN [ success |-> FALSE, error |-> << "Max retries exceeded" >>, calls |-> attempt ]
    ELSE IF script[attempt + 1] = "success"
         THEN [ success |-> TRUE, error |-> << >>, calls |-> attempt + 1 ]
         ELSE IF attempt = retry_count
              THEN [ success |-> FALSE, error |-> ImageError(attempt + 1),
                     calls |-> attempt + 1 ]
              ELSE attempts_loop(script, attempt + 1)

generate_illustration_for_page_always(page_number, is_cover, files, force_regenerate, script) ==
    LET output_path == OutputPath(page_number, is_cover)
        r == attempts_loop(script, 0)
    IN  [ success |-> r.success, error |-> r.error, calls |-> r.calls,
          output_path |-> output_path, existed |-> output_path \in files ]

generate_illustration_for_page(page_number, is_cover, files, force_regenerate, script) ==
    LET output_path == OutputPath(page_number, is_cover)
        r == attempts_loop(script, 0)
    IN  IF output_path \in files /\ ~force_regenerate
        THEN [ success |-> TRUE, error |-> << >>, calls |-> 0,
               output_path |-> output_path, existed |-> TRUE ]
        ELSE [ success |-> r.success, error |-> r.error, calls |-> r.calls,
               output_path |-> output_path, existed |-> output_path \in files ]

FirstPageNumbered(pages, page_number) ==
    LET hits == { i \in 1..Len(pages) : pages[i].page_number = page_number }
    IN  IF hits = {} THEN None
        ELSE Some(pages[CHOOSE i \in hits : \A j \in hits : i <= j])

get_page_from_book_by_target(book_content, page_number) ==
    IF page_number = 0
    THEN [ page |-> Some(book_content.front_cover), is_cover |-> TRUE ]
    ELSE IF page_number = TARGET_PAGE_COUNT + 1
         THEN [ page |-> Some(book_content.back_cover), is_cover |-> TRUE ]
         ELSE [ page |-> FirstPageNumbered(book_content.pages, page_number),
                is_cover |-> FALSE ]

get_page_from_book(book_content, page_number) ==
    IF page_number = 0 /\ "front_cover" \in DOMAIN book_content
    THEN [ page |-> Some(book_content.front_cover), is_cover |-> TRUE ]
    ELSE IF page_number = 11 /\ "back_cover" \in DOMAIN book_content
         THEN [ page |-> Some(book_content.back_cover), is_cover |-> TRUE ]
         ELSE [ page |-> FirstPageNumbered(book_content.pages, page_number),
                is_cover |-> FALSE ]

FailureEntry(page, error) ==
    [ page_number |-> page.page_number, error |-> error,
      description |-> page.illustration_description ]

process_page_silent(page, is_cover, files, force_regenerate, script) ==
    [ failure |-> None,
      run |-> generate_illustration_for_page(page.page_number, is_cover, files,
                                             force_regenerate, script) ]

process_page(page, is_cover, files, force_regenerate, script) ==
    LET run == generate_illustration_for_page(page.page_number, is_cover, files,
                                              force_regenerate, script)
    IN  [ failure |-> IF run.success THEN None ELSE Some(FailureEntry(page, run.error)),
          run |-> run ]

\* Lines 270-288: what failed_illustrations.json is after the run
handle_failures_keep(failures, failed_file) ==
    IF failures # << >> THEN Some(failures) ELSE failed_file

handle_failures(failures, failed_file) ==
    IF failures # << >> THEN Some(failures) ELSE None

\* The iterations of main, in the order it makes them: lines 206-268
Direct(page, is_cover) ==
    [ lookup |-> FALSE, page_number |-> page.page_number, page |-> page,
      is_cover |-> is_cover ]

Lookup(page_number) ==
    [ lookup |-> TRUE, page_number |-> page_number, page |-> BookPage(page_number),
      is_cover |-> FALSE ]

Iterations(args, book_content, failed_pages) ==
    IF args.mode = "page"
    THEN << Lookup(args.page) >>
    ELSE IF args.mode = "retry"
         THEN [ i \in 1..Len(failed_pages) |-> Lookup(failed_pages[i].page_number) ]
         ELSE (IF ~args.skip_covers /\ "front_cover" \in DOMAIN book_content
               THEN << Direct(book_content.front_cover, TRUE) >> ELSE << >>)
              \o [ i \in 1..Len(book_content.pages) |->
                       Direct(book_content.pages[i], FALSE) ]
              \o (IF ~args.skip_covers /\ "back_cover" \in DOMAIN book_content
                  THEN << Direct(book_content.back_cover, TRUE) >> ELSE << >>)

\* The pages of this run the image service gave trouble on
Troubled(log) ==
    Cardinality({ i \in 1..Len(log) : log[i].calls > 1 \/ ~log[i].success })

\* failed_illustrations.json as an earlier run left it: one entry per failed
\* page, in the order the batch run meets them
RECURSIVE FailedFileOf(_)
FailedFileOf(numbers) ==
    IF numbers = {} THEN << >>
    ELSE LET n == CHOOSE x \in numbers : \A y \in numbers : x <= y
         IN  << FailureEntry(BookPage(n), << "image error" >>) >>
             \o FailedFileOf(numbers \ {n})

FailedFiles ==
    { FailedFileOf(F) : F \in { G \in SUBSET (0..(TARGET_PAGE_COUNT + 1)) :
                               Cardinality(G) \in 1..MaxFailedIllustrations } }

FilesBefore ==
    { {}, AllImageFiles, { FrontCoverFile } \cup { PageFile(n) : n \in 1..6 } }

IllustrationArgs ==
    { [ mode |-> "batch", page |-> 0, skip_covers |-> sc, force |-> f ] :
          sc \in BOOLEAN, f \in BOOLEAN }
    \cup { [ mode |-> "page", page |-> p, skip_covers |-> FALSE, force |-> f ] :
          p \in 0..(TARGET_PAGE_COUNT + 2), f \in BOOLEAN }
    \cup { [ mode |-> "retry", page |-> 0, skip_covers |-> FALSE, force |-> f ] :
          f \in BOOLEAN }

InitIllustrations ==
    /\ PipelineIdle
    /\ CovIdle
    /\ llm_script = << >>
    /\ llm_phase = "idle"
    /\ llm_result = Return(<< >>, 0)
    /\ FanIdle
    /\ AggIdle
    /\ AsmIdle
    /\ ill_phase = "start"
    /\ ill_args \in IllustrationArgs
    /\ ill_book \in { None, Some(BookContent) }
    /\ ill_book = None => ill_args = [ mode |-> "batch", page |-> 0,
                                       skip_covers |-> FALSE, force |-> FALSE ]
    /\ ill_files \in FilesBefore
    /\ ill_failed_file \in { None } \cup { Some(e) : e \in FailedFiles }
    /\ ill_args.mode # "retry" =>
           ill_failed_file \in { None, Some(FailedFileOf({5})) }
    /\ ill_todo = << >>
    /\ current_failures = << >>
    /\ ill_log = << >>
    /\ ill_exit = None

\* Lines 161-204: the input file is checked and read, the retry list loaded
IllStart ==
    /\ ill_phase = "start"
    /\ IF IsNone(ill_book)
       THEN /\ ill_phase' = "done"
            /\ ill_exit' = Some(1)
            /\ UNCHANGED ill_todo
       ELSE /\ ill_phase' = "run"
            /\ ill_todo' = Iterations(ill_args, ill_book[1],
                                      IF ill_args.mode = "retry" /\ ~IsNone(ill_failed_file)
                                      THEN ill_failed_file[1] ELSE << >>)
            /\ UNCHANGED ill_exit
    /\ UNCHANGED << ill_args, ill_book, ill_files, ill_failed_file, current_failures,
                    ill_log, pipeline_vars, llm_vars, fan_vars, agg_vars, asm_vars,
                    cov_vars >>

\* One iteration of main: the page is looked up where the mode asks for it
\* and handed to process_page
IllProcess ==
    /\ ill_phase = "run"
    /\ ill_todo # << >>
    /\ LET item == Head(ill_todo)
           found == IF item.lookup
                    THEN get_page_from_book(ill_book[1], item.page_number)
                    ELSE [ page |-> Some(item.page), is_cover |-> item.is_cover ]
       IN  IF IsNone(found.page)
           THEN /\ IF ill_args.mode = "page"
                   THEN /\ ill_phase' = "done"
                        /\ ill_exit' = Some(1)
                   ELSE UNCHANGED << ill_phase, ill_exit >>
                /\ ill_todo' = Tail(ill_todo)
                /\ UNCHANGED << ill_files, current_failures, ill_log >>
           ELSE \E errors \in ImageOutcomes :
                    /\ errors > 0 => Troubled(ill_log) < MaxFailedIllustrations
                    /\ LET r == process_page(found.page[1], found.is_cover, ill_files,
                                             ill_args.force, ImageScript(errors))
                       IN  /\ r.run.calls = 0 => errors = 0
                           /\ ill_files' = IF r.run.success
                                           THEN ill_files \cup { r.run.output_path }
                                           ELSE ill_files
                           /\ current_failures' =
                                  IF IsNone(r.failure) THEN current_failures
                                  ELSE Append(current_failures, r.failure[1])
                           /\ ill_log' = Append(ill_log,
                                  [ asked |-> item.page_number,
                                    lookup |-> item.lookup,
                                    page_number |-> found.page[1].page_number,
                                    is_cover |-> found.is_cover,
                                    output_path |-> r.run.output_path,
                                    existed |-> r.run.existed,
                                    calls |-> r.run.calls,
                                    success |-> r.run.success,
                                    error |-> r.run.error,
                                    script |-> ImageScript(errors) ])
                    /\ ill_todo' = Tail(ill_todo)
                    /\ UNCHANGED << ill_phase, ill_exit >>
    /\ UNCHANGED << ill_args, ill_book, ill_failed_file,
                    pipeline_vars, llm_vars, fan_vars, agg_vars, asm_vars, cov_vars >>

\* Lines 270-288: the failures are saved, or the old record removed; main
\* returns and the script ends with status 0
IllFinish ==
    /\ ill_phase = "run"
    /\ ill_todo = << >>
    /\ ill_failed_file' = handle_failures(current_failures, ill_failed_file)
    /\ ill_phase' = "done"
    /\ ill_exit' = Some(0)
    /\ UNCHANGED << ill_args, ill_book, ill_files, ill_todo, current_failures, ill_log,
                    pipeline_vars, llm_vars, fan_vars, agg_vars, asm_vars, cov_vars >>

NextIllustrations == IllStart \/ IllProcess \/ IllFinish

SpecIllustrations == InitIllustrations /\ [][NextIllustrations]_vars

(***************************************************************************)
(* generate_covers on its own: the two cover calls run concurrently and    *)
(* asyncio.gather waits for them.                                          *)
(***************************************************************************)

\* the cover tasks in the order they were handed to asyncio.gather
FrontTask == 1

BackTask == 2

\* what the task returns or raises once its model call is over
CoverTaskResult(t) ==
    IF t = FrontTask
    THEN generate_cover(cov_state.park_name, TRUE, 0, cov_responses[FrontTask])
    ELSE generate_cover(cov_state.park_name, FALSE, TARGET_PAGE_COUNT + 1,
                        cov_responses[BackTask])

CoverTaskDone(t) == \E k \in 1..Len(cov_order) : cov_order[k] = t

InitCovers ==
    /\ PipelineIdle
    /\ LLMIdle
    /\ FanIdle
    /\ AggIdle
    /\ AsmIdle
    /\ IllIdle
    /\ cov_phase = "ready"
    /\ cov_state \in { GenerationState(p, r) : p \in ParkNameInputs, r \in ResearchInputs }
    /\ \E fs \in CoverScripts, bs \in CoverScripts, obeys \in BOOLEAN :
           cov_responses =
               << CoverResponse(fs, obeys, 0, ExactText(cov_state.park_name)),
                  CoverResponse(bs, obeys, TARGET_PAGE_COUNT + 1, << "Goodbye" >>) >>
    /\ cov_order = << >>
    /\ cov_result = Return(<< >>, 0)

\* lines 449-478: the two coroutines are created and handed to gather
CoversStart ==
    /\ cov_phase = "ready"
    /\ cov_phase' = "running"
    /\ UNCHANGED << cov_state, cov_responses, cov_order, cov_result,
                    pipeline_vars, llm_vars, fan_vars, agg_vars, asm_vars, ill_vars >>

\* one cover task finishes; a task still running when gather has raised
\* finishes later, its result is dropped
CoverTaskCompletes ==
    /\ cov_phase \in { "running", "done" }
    /\ \E t \in { FrontTask, BackTask } :
           /\ ~CoverTaskDone(t)
           /\ cov_order' = Append(cov_order, t)
    /\ UNCHANGED << cov_phase, cov_state, cov_responses, cov_result,
                    pipeline_vars, llm_vars, fan_vars, agg_vars, asm_vars, ill_vars >>

\* lines 477-490: gather returns both results when both tasks are done, or
\* raises the exception of the first task that failed; the stage returns
CoversReturn ==
    /\ cov_phase = "running"
    /\ \/ Len(cov_order) = 2
       \/ \E k \in 1..Len(cov_order) : CoverTaskResult(cov_order[k]).raises
    /\ cov_result' = generate_covers(cov_state, cov_responses[FrontTask],
                                     cov_responses[BackTask],
                                     Head(cov_order) = FrontTask)
    /\ cov_phase' = "done"
    /\ UNCHANGED << cov_state, cov_responses, cov_order,
                    pipeline_vars, llm_vars, fan_vars, agg_vars, asm_vars, ill_vars >>

NextCovers == CoversStart \/ CoverTaskCompletes \/ CoversReturn

SpecCovers == InitCovers /\ [][NextCovers]_vars

\* ------------------------------------------------------------------------
\* Properties
\* ------------------------------------------------------------------------
Finished == node = "returned"

\* entry e of executed is a stage that returned an error signal
IsErrorSignal(e) == ~e.raises /\ e.update.status = "error"

\* the entries of executed that belong to stage n
EntriesOf(n) == { i \in 1..Len(executed) : executed[i].node = n }

\* an error placeholder produced by generate_single_page_content
IsPlaceholder(p) ==
    /\ p.text = ErrorText
    /\ StartsWith(p.illustration_description, << "Error:" >>)

\* token t occurs in string s
Mentions(s, t) == \E k \in 1..Len(s) : s[k] = t

\* C1: once a stage has returned an error signal the run halts: the stage
\* that returned status = error is the last stage function invoked.
C1_HaltsOnFirstError ==
    \A i \in 1..Len(executed) : IsErrorSignal(executed[i]) => i = Len(executed)

\* the pages that generate_all_pages collected in this run
CollectedPages ==
    IF \E i \in EntriesOf("generate_all_pages") : "generated_pages" \in DOMAIN executed[i].update
    THEN LET i == CHOOSE j \in EntriesOf("generate_all_pages") :
                      "generated_pages" \in DOMAIN executed[j].update
         IN  executed[i].update.generated_pages
    ELSE << >>

FailedPageNumbers ==
    { CollectedPages[k].page_number[1] :
        k \in { j \in 1..Len(CollectedPages) : IsPlaceholder(CollectedPages[j]) } }

\* the model calls of the stages other than page generation all succeeded
OtherModelCallsSucceeded ==
    \A i \in 1..Len(executed) :
        executed[i].node \in { "define_narrative_arc", "structure_chapters",
                               "generate_page_concepts", "generate_covers" }
            => ~IsErrorSignal(executed[i])

\* the page numbers named in an error_details string of the aggregator
NamedPageNumbers(details) ==
    { n \in 1..TARGET_PAGE_COUNT :
        \E k \in 3..Len(details) - 1 : details[k] = ToString(n) }

\* C2: a run in which some per-page generation call failed (the other model
\* calls succeeding) ends in status error, error_details names exactly the
\* failed pages, and no final_book is produced.
C2_FailedPageStopsBook ==
    (Finished /\ FailedPageNumbers # {} /\ OtherModelCallsSucceeded)
        => /\ state.status = "error"
           /\ ~IsNone(state.error_details)
           /\ Mentions(state.error_details[1], "page(s) failed generation (Pages:")
           /\ NamedPageNumbers(state.error_details[1]) = FailedPageNumbers
           /\ IsNone(state.final_book)

\* structure_chapters got a chapter list whose page_count sum is not the target
ChapterMismatch ==
    /\ ~IsNone(model_chapters)
    /\ SumSeq(PageCounts(model_chapters[1])) # TARGET_PAGE_COUNT

MentionsMismatch(details) ==
    /\ Mentions(details, "LLM generated chapters totaling")
    /\ Mentions(details, ToString(SumSeq(PageCounts(model_chapters[1]))))
    /\ Mentions(details, ToString(TARGET_PAGE_COUNT))

\* C3: a run in which structure_chapters received chapters whose page_count
\* sum differs from the target ends in status error, the error_details of
\* the final state mentions the mismatch (computed total and target), and
\* final_book is never set.
C3_MismatchReportedAtEnd ==
    (Finished /\ ChapterMismatch)
        => /\ state.status = "error"
           /\ ~IsNone(state.error_details)
           /\ MentionsMismatch(state.error_details[1])
           /\ IsNone(state.final_book)

\* C4: status = error is absorbing: no step of a run takes the pipeline
\* state from status = error to another status.
C4_ErrorIsAbsorbing ==
    [][state.status = "error" => state'.status = "error"]_vars

\* C5: the final state of a run is either completed with final_book set and
\* error_details unset, or error with error_details set and final_book unset.
C5_FinalStateShape ==
    Finished =>
        \/ /\ state.status = "completed"
           /\ ~IsNone(state.final_book)
           /\ IsNone(state.error_details)
        \/ /\ state.status = "error"
           /\ ~IsNone(state.error_details)
           /\ IsNone(state.final_book)

\* every model call of the run returned a result that passed the checks
\* made on it: no stage that invoked the model returned an error signal and
\* no collected page is a failed page
AllModelCallsGood ==
    /\ \A i \in 1..Len(executed) :
           executed[i].invocations > 0 => ~IsErrorSignal(executed[i])
    /\ \A k \in 1..Len(CollectedPages) : ~IsErrorPage(CollectedPages[k])

\* run_graph returned a completed book of the shape of scenario A
BookAsClaimed ==
    /\ state.status = "completed"
    /\ ~IsNone(result)
    /\ "final_book" \in DOMAIN result[1]
    /\ LET book == result[1].final_book[1]
       IN  /\ book.front_cover.page_number = Some(0)
           /\ Len(book.pages) = TARGET_PAGE_COUNT
           /\ \A k \in 1..Len(book.pages) : book.pages[k].page_number = Some(k)
           /\ book.back_cover.page_number = Some(TARGET_PAGE_COUNT + 1)
           /\ book.front_cover.text = state.park_name \o << "National", "Park" >>

\* C6 as stated: every run in which every model call returns a well-shaped
\* result that passes its stage's checks ends completed with the book of
\* scenario A.
C6_Original ==
    (Finished /\ AllModelCallsGood) => BookAsClaimed

\* C6 (amended): every run with a non-empty park name and non-empty research
\* content in which every model call returns a well-shaped result that
\* passes its stage's checks ends completed with a KidsBook whose front cover
\* has page_number 0, whose content pages are target many, numbered
\* 1..target ascending, whose back cover has page_number target+1 and whose
\* front cover text is the (normalised) park name followed by National Park.
C6_WellShapedRunCompletes ==
    (Finished /\ AllModelCallsGood
        /\ arg_park_name # << >> /\ arg_research_content # << >>)
        => /\ BookAsClaimed
           /\ state.park_name = NormalizeParkName(arg_park_name)

C6_Witness ==
    /\ Finished
    /\ AllModelCallsGood
    /\ arg_park_name # << >>
    /\ arg_research_content # << >>
    /\ Len(executed) = 7
    /\ state.status = "completed"

\* C7: every stage function returns and never raises; a failure result has
\* exactly the keys status and error_details, with status = error and a
\* non-empty error_details string.
C7_StagesNeverRaise ==
    /\ ~escaped
    /\ \A i \in 1..Len(executed) :
           /\ ~executed[i].raises
           /\ "status" \in DOMAIN executed[i].update
           /\ executed[i].update.status = "error" =>
                  /\ DOMAIN executed[i].update = { "status", "error_details" }
                  /\ ~IsNone(executed[i].update.error_details)
                  /\ executed[i].update.error_details[1] # << >>

\* all seven stages ran, one of them after a failed model call
C7_Witness ==
    /\ Finished
    /\ { executed[i].node : i \in 1..Len(executed) } = { Nodes[k] : k \in 1..7 }
    /\ \E i \in 1..Len(executed) :
           IsErrorSignal(executed[i]) /\ executed[i].invocations > 0

\* C8: a parse or validation failure is never retried: the model is invoked
\* once and the failure surfaces at once; an invocation after the first one
\* only ever follows a transient error.
C8_NonTransientNeverRetried ==
    llm_phase = "done" =>
        /\ \A k \in 2..llm_result.invocations : llm_script[k - 1] \in TransientErrors
        /\ llm_script[1] \in { "OutputParserException", "ValueError" } =>
               /\ llm_result.invocations = 1
               /\ ~llm_result.returned
               /\ llm_result.error.type = llm_script[1]

\* C9: a Structured Model Call invokes the model at most 3 times, returns
\* the first successful result without a further invocation, and when the
\* first 3 invocations all fail with transient errors it raises the
\* connection failure that wraps the error of the 3rd invocation.
C9_AtMostThreeAttempts ==
    llm_phase = "done" =>
        /\ llm_result.invocations <= 3
        /\ \A k \in 1..3 :
               (llm_script[k] = "ok" /\ \A j \in 1..(k - 1) : llm_script[j] # "ok")
                   => llm_result.returned /\ llm_result.invocations = k
        /\ (\A k \in 1..3 : llm_script[k] \in TransientErrors)
               => /\ ~llm_result.returned
                  /\ llm_result.error.type = "ConnectionError"
                  /\ llm_result.error.cause =
                         [type |-> llm_script[3],
                          message |-> << llm_script[3], "at attempt", "3" >>]

\* three transient failures, the last of another class than the first
C9_Witness ==
    /\ llm_phase = "done"
    /\ \A k \in 1..3 : llm_script[k] \in TransientErrors
    /\ llm_script[1] # llm_script[3]
    /\ llm_result.invocations = 3

\* the return value of structure_chapters in this run
ChaptersEntry ==
    executed[CHOOSE i \in 1..Len(executed) : executed[i].node = "structure_chapters"]

\* C10: structure_chapters accepts a returned chapter list (stores it as
\* chapter_definitions with its page counts as returned, status
\* generating_concepts) iff its page_count sum equals the target; on any
\* other sum the stage fails and chapter_definitions stays unset.
C10_AcceptsIffSumIsTarget ==
    ~IsNone(model_chapters) =>
        IF SumSeq(PageCounts(model_chapters[1])) = TARGET_PAGE_COUNT
        THEN /\ ChaptersEntry.update.status = "generating_concepts"
             /\ "chapter_definitions" \in DOMAIN ChaptersEntry.update
             /\ state.chapter_definitions = ChaptersEntry.update.chapter_definitions
             /\ PageCounts(state.chapter_definitions[1]) = PageCounts(model_chapters[1])
        ELSE /\ IsErrorSignal(ChaptersEntry)
             /\ "chapter_definitions" \notin DOMAIN ChaptersEntry.update
             /\ IsNone(state.chapter_definitions)

\* a list was accepted and another stage has run since
C10_Witness ==
    /\ ~IsNone(model_chapters)
    /\ ~IsNone(state.chapter_definitions)
    /\ Len(model_chapters[1]) >= 2
    /\ node = "generate_all_pages"

\* ------------------------------------------------------------------------
\* Page concepts
\* ------------------------------------------------------------------------
\* C11: whenever generate_page_concepts has succeeded, the stored concept list
\* has exactly TARGET_PAGE_COUNT entries and the entry at position k of the
\* list carries page_number k: the numbers are pairwise distinct and run
\* through 1..TARGET_PAGE_COUNT in list order.
C11_ConceptsNumberedInOrder ==
    ~IsNone(state.page_concepts)
        => /\ Len(state.page_concepts[1]) = TARGET_PAGE_COUNT
           /\ \A k \in 1..Len(state.page_concepts[1]) :
                  state.page_concepts[1][k].page_number = Some(k)

\* concepts of two chapters were stored
C11_Witness ==
    /\ ~IsNone(state.page_concepts)
    /\ \E k \in 1..Len(state.page_concepts[1]) :
           state.page_concepts[1][k].chapter_number # state.page_concepts[1][1].chapter_number

\* C12: when the model answers a chapter with a number of concepts different
\* from the chapter's page_count, generate_page_concepts returns an error
\* signal, page_concepts stays unset, and the model was invoked for no later
\* chapter (every call that returns takes one invocation, so the invocations
\* of the stage are as many as the position of that chapter).
C12_CountMismatchFailsStage ==
    concept_mismatch > 0
        => /\ IsNone(state.page_concepts)
           /\ \A i \in EntriesOf("generate_page_concepts") :
                  /\ IsErrorSignal(executed[i])
                  /\ "page_concepts" \notin DOMAIN executed[i].update
                  /\ executed[i].invocations = concept_mismatch

\* the first of two chapters was answered with a wrong count, after which
\* the stage has returned
C12_Witness ==
    /\ concept_mismatch = 1
    /\ ~IsNone(state.chapter_definitions)
    /\ Len(state.chapter_definitions[1]) >= 2
    /\ EntriesOf("generate_page_concepts") # {}

\* a later chapter was answered with a wrong count after the concepts of an
\* earlier chapter had been collected
C12_WitnessLater ==
    /\ concept_mismatch >= 2
    /\ EntriesOf("generate_page_concepts") # {}

\* ------------------------------------------------------------------------
\* Content pages
\* ------------------------------------------------------------------------
\* the concepts generate_all_pages read
StoredConcepts == IF IsNone(state.page_concepts) THEN << >> ELSE state.page_concepts[1]

\* the page calls whose answer made generate_single_page_content fail
FailedCalls ==
    IF IsNone(page_faults) THEN {}
    ELSE { k \in DOMAIN page_faults[1] : page_faults[1][k] \in {"call_raises", "bad_prefix"} }

\* C13: every Page returned by generate_single_page_content, a successful
\* page or an error placeholder, carries the page_number of the concept it
\* was generated from, whatever page_number the model put in its answer (the
\* model's answers carry no number or 99).
C13_PageKeepsConceptNumber ==
    LET pages == CollectedPages
        concepts == StoredConcepts
    IN  \A k \in 1..Len(pages) : pages[k].page_number = concepts[k].page_number

\* a successful page and an error placeholder were returned
C13_Witness ==
    /\ \E k \in 1..Len(CollectedPages) : IsPlaceholder(CollectedPages[k])
    /\ \E k \in 1..Len(CollectedPages) : ~IsErrorPage(CollectedPages[k])

\* the concept among concepts with the page_number of page p
ConceptOf(concepts, p) ==
    CHOOSE c \in { concepts[k] : k \in 1..Len(concepts) } : c.page_number = p.page_number

\* C14: a page that generate_single_page_content returns as successful has an
\* illustration_description starting with the subject of its concept; an
\* answer of the model that violates the prefix yields the error placeholder;
\* so every page in a list that aggregate_generated_pages accepted starts
\* with the subject of its concept.
C14_SuccessImpliesSubjectPrefix ==
    LET pages == CollectedPages
        concepts == StoredConcepts
    IN  /\ \A k \in 1..Len(pages) :
               ~IsPlaceholder(pages[k])
                   => StartsWith(pages[k].illustration_description, concepts[k].subject)
        /\ ~IsNone(page_faults)
               => \A k \in DOMAIN page_faults[1] :
                      page_faults[1][k] = "bad_prefix" => IsPlaceholder(pages[k])
        /\ \A i \in EntriesOf("aggregate_generated_pages") :
               "generated_pages" \in DOMAIN executed[i].update
                   => \A j \in 1..Len(executed[i].update.generated_pages) :
                          LET p == executed[i].update.generated_pages[j]
                          IN  /\ \E k \in 1..Len(concepts) :
                                     concepts[k].page_number = p.page_number
                              /\ StartsWith(p.illustration_description,
                                            ConceptOf(concepts, p).subject)

\* the model answered a page with a description that does not start with
\* the subject, and the stage has returned
C14_Witness ==
    /\ ~IsNone(page_faults)
    /\ \E k \in DOMAIN page_faults[1] : page_faults[1][k] = "bad_prefix"
    /\ Len(CollectedPages) > 0

\* the aggregator accepted a list of pages
C14_WitnessAccepted ==
    \E i \in EntriesOf("aggregate_generated_pages") :
        "generated_pages" \in DOMAIN executed[i].update

\* C15: whatever the per-page model calls do, generate_all_pages produces
\* one Page per concept, and the page of every failed call is an error
\* placeholder with the page_number of its concept and the sentinel text.
C15_OnePagePerConcept ==
    ~IsNone(page_faults)
        => LET pages == CollectedPages
               concepts == StoredConcepts
           IN  /\ Len(pages) = Len(concepts)
               /\ \A k \in FailedCalls :
                      /\ IsPlaceholder(pages[k])
                      /\ pages[k].page_number = concepts[k].page_number
                      /\ pages[k].text = ErrorText

\* a page call failed and the stage has returned
C15_Witness ==
    /\ FailedCalls # {}
    /\ Len(CollectedPages) > 0

\* ------------------------------------------------------------------------
\* Aggregation of the pages
\* ------------------------------------------------------------------------
\* the positions of the pages whose text starts with the sentinel
SentinelPrefixed(pages) == { k \in 1..Len(pages) : IsErrorPage(pages[k]) }

\* the positions of the pages whose text is the sentinel
SentinelTexted(pages) == { k \in 1..Len(pages) : pages[k].text = ErrorText }

\* update is the aggregator's report of the failed pages at positions
ReportsFailures(update, pages, positions) ==
    /\ update.status = "error"
    /\ ~IsNone(update.error_details)
    /\ Len(update.error_details[1]) >= 3
    /\ update.error_details[1][1] = ToString(Cardinality(positions))
    /\ update.error_details[1][2] = "page(s) failed generation (Pages:"
    /\ NamedPageNumbers(update.error_details[1])
           = { pages[k].page_number[1] : k \in positions }

\* C18: aggregate_generated_pages, run on a page list in which it finds at
\* least one failed page, returns an error signal whose error_details gives
\* the number of failed pages and names the page_number of each of them; it
\* returns no generated_pages, so the collected list stays in the state, and
\* the status it leaves is error, not generating_covers.
C18_FailedPagesReported ==
    \A i \in EntriesOf("aggregate_generated_pages") :
        LET pages == CollectedPages
            failed == SentinelPrefixed(pages)
        IN  failed # {}
                => /\ ~executed[i].raises
                   /\ ReportsFailures(executed[i].update, pages, failed)
                   /\ DOMAIN executed[i].update = {"status", "error_details"}
                   /\ state.generated_pages = pages
                   /\ node = "generate_covers" => state.status = "error"

\* the aggregator has just run on a list with a failed page
C18_Witness ==
    /\ node = "generate_covers"
    /\ \E k \in 1..Len(CollectedPages) : IsPlaceholder(CollectedPages[k])

\* C19: aggregate_generated_pages takes a page for a success exactly when
\* its text is not equal to the sentinel "Error generating content" and for
\* a failure otherwise: a list of TARGET_PAGE_COUNT pages none of whose
\* texts equals the sentinel is accepted, and otherwise the failures
\* reported are the pages whose text equals the sentinel.
C19_SuccessIffTextNotSentinel ==
    \A i \in EntriesOf("aggregate_generated_pages") :
        LET pages == CollectedPages
            failed == SentinelTexted(pages)
        IN  Len(pages) = TARGET_PAGE_COUNT
                => IF failed = {}
                   THEN /\ ~executed[i].raises
                        /\ executed[i].update.status = "generating_covers"
                   ELSE /\ ~executed[i].raises
                        /\ ReportsFailures(executed[i].update, pages, failed)

\* ------------------------------------------------------------------------
\* The fan-out of the page calls
\* ------------------------------------------------------------------------
\* the page generate_single_page_content makes of the concept at position i
PageFrom(i) == generate_single_page_content(fan_concepts[i], fan_responses[i]).generated_page

\* C16: for every order in which the concurrent page calls of a batch
\* complete, the list collected by generate_all_pages is in the order of the
\* concepts: entry i is the page generated from concept i, so the list is the
\* same for every completion order, a failed page leaving the entries of its
\* siblings as they are; it is the list the stage makes when every batch
\* completes in the order of its tasks.
C16_CollectedInConceptOrder ==
    /\ \A i \in 1..Len(fan_generated_pages) : fan_generated_pages[i] = PageFrom(i)
    /\ fan_phase = "done"
           => /\ Len(fan_generated_pages) = Len(fan_concepts)
              /\ fan_generated_pages =
                     batches_loop(fan_concepts, fan_responses, 1,
                                  [generated_pages |-> << >>, invocations |-> 0]).generated_pages

\* the second task of a batch completed before the first, one of the two
\* failed, and their pages were collected
C16_Witness ==
    /\ fan_tasks = << >>
    /\ fan_order = << 2, 1 >>
    /\ Len(fan_generated_pages) >= 2
    /\ \E i \in { Len(fan_generated_pages) - 1, Len(fan_generated_pages) } :
           IsPlaceholder(fan_generated_pages[i])

\* the concepts whose call is outstanding
Outstanding == { fan_i + k - 1 : k \in { j \in DOMAIN fan_tasks : fan_tasks[j] = None } }

\* the concepts whose call has completed
Completed ==
    (1..Len(fan_generated_pages))
        \cup { fan_i + k - 1 : k \in { j \in DOMAIN fan_tasks : fan_tasks[j] # None } }

\* the batch of the concept at position i, for batches of two
BatchOf(i) == (i + 1) \div 2

\* C17: during the fan-out at most 2 page calls are outstanding at any
\* moment, no call of a batch is started before every call of the batches
\* before it has completed, and the calls are started in input order.
C17_AtMostTwoOutstanding ==
    /\ Cardinality(Outstanding) <= 2
    /\ \A k \in 1..Len(fan_started) :
           /\ fan_started[k] = k
           /\ \A j \in 1..Len(fan_concepts) :
                  BatchOf(j) < BatchOf(fan_started[k]) => j \in Completed
    /\ \A o \in Outstanding : o \in 1..Len(fan_started)

\* both calls of a later batch are outstanding
C17_Witness ==
    /\ Cardinality(Outstanding) = 2
    /\ Len(fan_generated_pages) >= 2

\* ------------------------------------------------------------------------
\* The list the aggregator stores
\* ------------------------------------------------------------------------
\* how often page p occurs in the list s
Occurrences(s, p) == Cardinality({ i \in 1..Len(s) : s[i] = p })

\* list a holds the pages of list b, each as often as b does
IsPermutation(a, b) ==
    /\ Len(a) = Len(b)
    /\ \A i \in 1..Len(a) : Occurrences(a, a[i]) = Occurrences(b, a[i])

\* C20: whenever aggregate_generated_pages succeeds, the generated_pages it
\* returns has exactly TARGET_PAGE_COUNT pages, is a permutation of the pages
\* it was given, and is sorted ascending by page_number; a list without a
\* failed page whose length is not TARGET_PAGE_COUNT is rejected with an
\* error signal.
C20_AcceptedListSortedAndComplete ==
    agg_phase = "done"
        => /\ ~agg_result.raises
           /\ agg_result.update.status = "generating_covers"
                  => /\ "generated_pages" \in DOMAIN agg_result.update
                     /\ LET out == agg_result.update.generated_pages
                        IN  /\ Len(out) = TARGET_PAGE_COUNT
                            /\ IsPermutation(out, agg_pages)
                            /\ \A j \in 1..(Len(out) - 1) :
                                   out[j].page_number[1] <= out[j + 1].page_number[1]
           /\ ( /\ \A k \in 1..Len(agg_pages) : ~IsErrorPage(agg_pages[k])
                /\ Len(agg_pages) # TARGET_PAGE_COUNT )
                  => /\ agg_result.update.status = "error"
                     /\ ~IsNone(agg_result.update.error_details)
                     /\ "generated_pages" \notin DOMAIN agg_result.update

\* a list of TARGET_PAGE_COUNT good pages that was not in ascending order
\* has been accepted
C20_Witness ==
    /\ agg_phase = "done"
    /\ agg_result.update.status = "generating_covers"
    /\ \E j \in 1..(Len(agg_pages) - 1) :
           agg_pages[j].page_number[1] > agg_pages[j + 1].page_number[1]

\* a list of good pages of another length has been rejected
C20_WitnessRejected ==
    /\ agg_phase = "done"
    /\ Len(agg_pages) = TARGET_PAGE_COUNT + 1
    /\ \A k \in 1..Len(agg_pages) : ~IsErrorPage(agg_pages[k])
    /\ agg_result.update.status = "error"

\* ------------------------------------------------------------------------
\* Covers and assembly
\* ------------------------------------------------------------------------
\* C21: whenever generate_covers succeeds, the front cover it stores has
\* page_number 0 and the text "<park_name> National Park", and the back
\* cover it stores has page_number TARGET_PAGE_COUNT + 1, whatever page
\* numbers and front cover text the model returned.
C21_CoversForced ==
    \A i \in EntriesOf("generate_covers") :
        "front_cover" \in DOMAIN executed[i].update
            => /\ state.front_cover = executed[i].update.front_cover
               /\ state.back_cover = executed[i].update.back_cover
               /\ ~IsNone(state.front_cover)
               /\ ~IsNone(state.back_cover)
               /\ state.front_cover[1].page_number = Some(0)
               /\ state.front_cover[1].text = state.park_name \o << "National", "Park" >>
               /\ state.back_cover[1].page_number = Some(TARGET_PAGE_COUNT + 1)

\* the covers were stored after the model had answered both calls with
\* page_number 99 and another front cover text
C21_Witness ==
    /\ cover_obeys = Some(FALSE)
    /\ ~IsNone(state.front_cover)
    /\ ~IsNone(state.back_cover)

\* assemble_book built a book from asm_state
Assembled ==
    /\ ~asm_result.raises
    /\ "final_book" \in DOMAIN asm_result.update
    /\ asm_result.update.status = "completed"

\* assemble_book returned an error signal and no final_book
AssembleRejected ==
    /\ ~asm_result.raises
    /\ asm_result.update.status = "error"
    /\ ~IsNone(asm_result.update.error_details)
    /\ "final_book" \notin DOMAIN asm_result.update

\* what assemble_book looks at: the covers' page numbers and the number of
\* content pages
CoversAndCountValid(s) ==
    /\ ~IsNone(s.front_cover)
    /\ s.front_cover[1].page_number = Some(0)
    /\ ~IsNone(s.back_cover)
    /\ s.back_cover[1].page_number = Some(TARGET_PAGE_COUNT + 1)
    /\ Len(s.generated_pages) = TARGET_PAGE_COUNT

\* the content page numbers are pairwise distinct within 1..TARGET_PAGE_COUNT
ContentNumbersValid(pages) ==
    /\ \A k \in 1..Len(pages) :
           /\ ~IsNone(pages[k].page_number)
           /\ pages[k].page_number[1] \in 1..TARGET_PAGE_COUNT
    /\ \A j, k \in 1..Len(pages) :
           j # k => pages[j].page_number # pages[k].page_number

C22_WitnessRejected ==
    /\ asm_phase = "done"
    /\ AssembleRejected
    /\ asm_state.park_name # << >>
    /\ ~IsNone(asm_state.back_cover)
    /\ asm_state.back_cover[1].page_number = Some(TARGET_PAGE_COUNT)
    /\ Len(asm_state.generated_pages) = TARGET_PAGE_COUNT

\* in the pipeline: when assemble_book builds a book, its content pages are
\* numbered 1..TARGET_PAGE_COUNT in order
PipelineBookPagesNumbered ==
    ~IsNone(state.final_book)
        => \A k \in 1..Len(state.final_book[1].pages) :
               state.final_book[1].pages[k].page_number = Some(k)

(***************************************************************************)
(* The illustration script                                                 *)
(***************************************************************************)

RECURSIVE TotalCalls(_)
TotalCalls(log) ==
    IF log = << >> THEN 0 ELSE Head(log).calls + TotalCalls(Tail(log))

BatchDone ==
    /\ ill_phase = "done"
    /\ ill_args.mode = "batch"
    /\ ill_exit = Some(0)

\* C23: without --force, a page whose output file already exists is skipped:
\* no call of the image service, success reported, the file still there; a
\* batch run that finds every file it asks for makes no call at all and
\* records no failure.
C23_ExistingFileSkipped ==
    LET log == ill_log
    IN  ~ill_args.force =>
            /\ \A i \in 1..Len(log) :
                   log[i].existed =>
                       /\ log[i].calls = 0
                       /\ log[i].success
                       /\ log[i].output_path \in ill_files
            /\ (BatchDone /\ \A i \in 1..Len(log) : log[i].existed) =>
                   /\ TotalCalls(log) = 0
                   /\ current_failures = << >>
                   /\ ill_failed_file = None

\* a batch run over all fourteen images, every one of them already on disk
C23_Witness ==
    /\ BatchDone
    /\ ~ill_args.force
    /\ Len(ill_log) = TARGET_PAGE_COUNT + 2
    /\ \A i \in 1..Len(ill_log) : ill_log[i].existed /\ ill_log[i].calls = 0

\* the positions of the log where the page failed
FailedRuns(log) == { i \in 1..Len(log) : ~log[i].success }

\* C24: a batch run attempts the front cover, every content page and the
\* back cover (the covers unless --skip-covers), in that order, whatever
\* failed before; afterwards failed_illustrations.json holds exactly one
\* entry {page_number, error, description} per failed page, and does not
\* exist when no page failed.
C24_BatchAttemptsAllAndRecordsFailures ==
    LET log == ill_log
        first == IF ill_args.skip_covers THEN 1 ELSE 0
        count == IF ill_args.skip_covers THEN TARGET_PAGE_COUNT
                 ELSE TARGET_PAGE_COUNT + 2
        failed == FailedRuns(log)
    IN  BatchDone =>
            /\ Len(log) = count
            /\ \A i \in 1..Len(log) :
                   /\ log[i].page_number = first + i - 1
                   /\ log[i].is_cover = (log[i].page_number \in {0, TARGET_PAGE_COUNT + 1})
                   /\ log[i].output_path =
                          IF log[i].page_number = 0 THEN FrontCoverFile
                          ELSE IF log[i].page_number = TARGET_PAGE_COUNT + 1
                               THEN BackCoverFile
                               ELSE PageFile(log[i].page_number)
            /\ IF failed = {}
               THEN ill_failed_file = None
               ELSE /\ ~IsNone(ill_failed_file)
                    /\ Len(ill_failed_file[1]) = Cardinality(failed)
                    /\ \A k \in 1..Len(ill_failed_file[1]) :
                           DOMAIN ill_failed_file[1][k] =
                               { "page_number", "error", "description" }
                    /\ \A i \in failed :
                           Cardinality({ k \in 1..Len(ill_failed_file[1]) :
                               ill_failed_file[1][k].page_number = log[i].page_number }) = 1

\* a batch run with covers in which an early page failed and the later ones
\* were attempted all the same
C24_Witness ==
    /\ BatchDone
    /\ ~ill_args.skip_covers
    /\ \E i \in 1..3 : ~ill_log[i].success
    /\ Len(ill_log) = TARGET_PAGE_COUNT + 2
    /\ ill_log[TARGET_PAGE_COUNT + 2].calls > 0
    /\ ~IsNone(ill_failed_file)

\* a batch run without a failure
C24_WitnessClean ==
    /\ BatchDone
    /\ FailedRuns(ill_log) = {}
    /\ TotalCalls(ill_log) > 0
    /\ ill_failed_file = None

\* the file a page of the book is drawn into: the one its batch attempt used
FileOfPage(page_number) ==
    IF page_number = 0 THEN FrontCoverFile
    ELSE IF page_number = TARGET_PAGE_COUNT + 1 THEN BackCoverFile
         ELSE PageFile(page_number)

\* the retry loop has gone through the recorded list and main has not yet
\* rewritten failed_illustrations.json
RetryLoopDone ==
    /\ ill_phase = "run"
    /\ ill_args.mode = "retry"
    /\ ill_todo = << >>
    /\ ~IsNone(ill_failed_file)

\* C25: --retry-failed re-attempts every page recorded in
\* failed_illustrations.json, each against the page and the output file that
\* failed, and attempts no other page.
C25_RetryAttemptsRecordedPages ==
    LET log == ill_log
    IN  RetryLoopDone =>
            /\ Len(log) = Len(ill_failed_file[1])
            /\ \A k \in 1..Len(log) :
                   /\ log[k].page_number = ill_failed_file[1][k].page_number
                   /\ log[k].output_path = FileOfPage(ill_failed_file[1][k].page_number)

\* the same statement for the records that name neither page 11 nor the back
\* cover
C25_RetryOfOtherPages ==
    LET log == ill_log
    IN  (/\ RetryLoopDone
         /\ \A k \in 1..Len(ill_failed_file[1]) :
                ill_failed_file[1][k].page_number \notin {11, TARGET_PAGE_COUNT + 1}) =>
            /\ Len(log) = Len(ill_failed_file[1])
            /\ \A k \in 1..Len(log) :
                   /\ log[k].page_number = ill_failed_file[1][k].page_number
                   /\ log[k].output_path = FileOfPage(ill_failed_file[1][k].page_number)

\* a recorded back cover that the retry run never attempted
C25_BackCoverNotRetried ==
    /\ RetryLoopDone
    /\ \E k \in 1..Len(ill_failed_file[1]) :
           ill_failed_file[1][k].page_number = TARGET_PAGE_COUNT + 1
    /\ \A i \in 1..Len(ill_log) : ill_log[i].output_path # BackCoverFile

\* a recorded page 11 retried as the back cover
C25_PageElevenRetriedAsBackCover ==
    /\ RetryLoopDone
    /\ ill_failed_file[1][1].page_number = 11
    /\ Len(ill_log) = 1
    /\ ill_log[1].output_path = BackCoverFile
    /\ ill_log[1].page_number = TARGET_PAGE_COUNT + 1

PageDone ==
    /\ ill_phase = "done"
    /\ ill_args.mode = "page"
    /\ ~IsNone(ill_book)

\* C26: for every content page N in 1..TARGET_PAGE_COUNT, --page N attempts
\* page N and only the file page_NN.jpg.
C26_PageSelectsContentPage ==
    (PageDone /\ ill_args.page \in 1..TARGET_PAGE_COUNT) =>
        /\ Len(ill_log) = 1
        /\ ill_log[1].page_number = ill_args.page
        /\ ~ill_log[1].is_cover
        /\ ill_log[1].output_path = PageFile(ill_args.page)

\* the same statement without page 11
C26_PageSelectsOtherContentPages ==
    (PageDone /\ ill_args.page \in (1..TARGET_PAGE_COUNT) \ {11}) =>
        /\ Len(ill_log) = 1
        /\ ill_log[1].page_number = ill_args.page
        /\ ~ill_log[1].is_cover
        /\ ill_log[1].output_path = PageFile(ill_args.page)

\* --page 11 drawing the back cover
C26_PageElevenDrawsBackCover ==
    /\ PageDone
    /\ ill_args.page = 11
    /\ Len(ill_log) = 1
    /\ ill_log[1].calls > 0
    /\ ill_log[1].success
    /\ ill_log[1].output_path = BackCoverFile

\* C27: the illustration script ends with a status other than 0 whenever a
\* page failed or book_text.json is missing, and with 0 only when every
\* requested illustration succeeded.
C27_ExitStatusTellsFailure ==
    (ill_phase = "done" /\ (IsNone(ill_book) \/ FailedRuns(ill_log) # {})) =>
        ill_exit # Some(0)

\* a run that failed on a page and ended with status 0
C27_FailedRunExitsZero ==
    /\ ill_phase = "done"
    /\ FailedRuns(ill_log) # {}
    /\ ~IsNone(ill_failed_file)
    /\ ill_exit = Some(0)

\* the missing input file does end the script with status 1
C27_MissingBookExitsOne ==
    (ill_phase = "done" /\ IsNone(ill_book)) => ill_exit = Some(1)

(***************************************************************************)
(* The book-text script                                                    *)
(***************************************************************************)

\* C28: book_text.json is written only with a complete validated book: when
\* the file is written, no stage of the run raised or returned an error
\* signal, and no page of the written book is a failed-page placeholder.
C28_BookFileOnlyWhenValidated ==
    ~IsNone(book_file) =>
        /\ \A i \in 1..Len(executed) :
               /\ ~executed[i].raises
               /\ ~IsErrorSignal(executed[i])
        /\ \A k \in 1..Len(book_file[1].pages) :
               ~IsPlaceholder(book_file[1].pages[k])

\* the aggregator reported failed pages and the book with the placeholder
\* was written all the same
C28_PlaceholderBookWritten ==
    /\ ~IsNone(book_file)
    /\ exit_status = Some(0)
    /\ \E i \in EntriesOf("aggregate_generated_pages") : IsErrorSignal(executed[i])
    /\ \E k \in 1..Len(book_file[1].pages) : IsPlaceholder(book_file[1].pages[k])

\* the file is written exactly when the run returned a final_book, and then
\* the script ends with status 0
C28_BookFileIffFinalBook ==
    node = "exited" =>
        /\ ~IsNone(book_file) <=>
               (~IsNone(result) /\ "final_book" \in DOMAIN result[1])
        /\ exit_status = IF IsNone(book_file) THEN Some(1) ELSE Some(0)

(***************************************************************************)
(* Structure Chapters: the accepted list                                   *)
(***************************************************************************)

ChaptersAccepted ==
    /\ ~IsNone(model_chapters)
    /\ ~IsNone(state.chapter_definitions)

C30_AcceptedChaptersHavePages ==
    ChaptersAccepted =>
        \A i \in 1..Len(state.chapter_definitions[1]) :
            state.chapter_definitions[1][i].page_count >= 1

\* the list with page counts -1 and 13 accepted and stored
C30_NegativePageCountAccepted ==
    /\ ChaptersAccepted
    /\ PageCounts(model_chapters[1]) = << -1, 13 >>
    /\ PageCounts(state.chapter_definitions[1]) = << -1, 13 >>
    /\ \E i \in EntriesOf("structure_chapters") :
           ~executed[i].raises /\ executed[i].update.status = "generating_concepts"

(***************************************************************************)
(* Generate Page Concepts: the chapters of the concepts                    *)
(***************************************************************************)

\* the pages that precede those of the chapter at position c
PagesBefore(chapters, c) ==
    SumSeq([i \in 1..(c - 1) |-> chapters[i].page_count])

\* C31: when generate_page_concepts succeeds it has made one model call per
\* chapter, in list order, and the concepts of the call for chapter k are
\* stored, in the order returned, at the page_count(k) page numbers that
\* follow those of chapters 1..k-1, each with chapter_number k; so
\* chapter_number is non-decreasing in page_number.
C31_ChaptersOwnConsecutivePages ==
    LET concepts == StoredConcepts
    IN  ~IsNone(state.page_concepts) =>
            LET chapters == state.chapter_definitions[1]
            IN  /\ \A i \in EntriesOf("generate_page_concepts") :
                       ~IsErrorSignal(executed[i]) =>
                           executed[i].invocations = Len(chapters)
                /\ \A c \in 1..Len(chapters) :
                       /\ { k \in 1..Len(concepts) :
                                concepts[k].chapter_number = Some(chapters[c].chapter_number) }
                              = (PagesBefore(chapters, c) + 1)
                                    ..(PagesBefore(chapters, c) + chapters[c].page_count)
                       /\ \A j \in 1..chapters[c].page_count :
                              concepts[PagesBefore(chapters, c) + j].subject = Subject(c, j)
                /\ \A k \in 1..(Len(concepts) - 1) :
                       concepts[k].chapter_number[1] <= concepts[k + 1].chapter_number[1]

\* concepts of a first chapter of seven pages and a second of five stored
C31_Witness ==
    /\ ~IsNone(state.page_concepts)
    /\ Len(state.chapter_definitions[1]) = 2
    /\ state.chapter_definitions[1][1].page_count = 7
    /\ state.page_concepts[1][7].chapter_number = Some(1)
    /\ state.page_concepts[1][8].chapter_number = Some(2)
    /\ state.page_concepts[1][8].subject = Subject(2, 1)

(***************************************************************************)
(* Generate Covers: both covers or none                                    *)
(***************************************************************************)

CoverCallFailed(t) == ~structured_llm_call(cov_responses[t].script).returned

\* C32: generate_covers stores the covers all-or-nothing: whichever of the
\* two concurrent cover calls finishes first, when either call fails the
\* stage returns an error signal whose update sets neither front_cover nor
\* back_cover; both are set exactly when both calls succeeded.
C32_CoversAllOrNothing ==
    cov_phase = "done" =>
        LET both == ~CoverCallFailed(FrontTask) /\ ~CoverCallFailed(BackTask)
        IN  /\ ~cov_result.raises
            /\ cov_result.update.status = (IF both THEN "assembling" ELSE "error")
            /\ "front_cover" \in DOMAIN cov_result.update <=> both
            /\ "back_cover" \in DOMAIN cov_result.update <=> both
            /\ both => Len(cov_order) = 2

\* the back cover call finished first and succeeded, then the front cover
\* call failed and the stage returned
C32_Witness ==
    /\ cov_phase = "done"
    /\ cov_order = << BackTask, FrontTask >>
    /\ CoverCallFailed(FrontTask)
    /\ ~CoverCallFailed(BackTask)
    /\ cov_result.update.status = "error"

\* the front cover call failed first and the stage returned while the back
\* cover call was still running
C32_WitnessEarlyReturn ==
    /\ cov_phase = "done"
    /\ cov_order = << FrontTask >>
    /\ ~CoverCallFailed(BackTask)

\* both calls succeeded, the back cover first
C32_WitnessBoth ==
    /\ cov_phase = "done"
    /\ cov_order = << BackTask, FrontTask >>
    /\ "front_cover" \in DOMAIN cov_result.update
    /\ "back_cover" \in DOMAIN cov_result.update

(***************************************************************************)
(* The order of the stages                                                 *)
(***************************************************************************)

StageOrder ==
    << "define_narrative_arc", "structure_chapters", "generate_page_concepts",
       "generate_all_pages", "aggregate_generated_pages", "generate_covers",
       "assemble_book" >>

\* C33: in every run the stages that have been executed are an initial part
\* of the fixed order narrative arc, chapters, concepts, page generation,
\* aggregation, covers, assembly; the stage to run next is the one after the
\* last stage that returned, and no stage is executed twice.
C33_StagesInFixedOrderOnce ==
    /\ Len(executed) <= Len(StageOrder)
    /\ \A i \in 1..Len(executed) : executed[i].node = StageOrder[i]
    /\ \A i \in 1..Len(executed) : \A j \in 1..Len(executed) :
           executed[i].node = executed[j].node => i = j
    /\ (\E k \in 1..Len(StageOrder) : node = StageOrder[k])
           => node = StageOrder[Len(executed) + 1]

\* all seven stages have run, once each, in a run where the chapter stage
\* had returned an error signal
C33_Witness ==
    /\ Len(executed) = Len(StageOrder)
    /\ executed[7].node = "assemble_book"
    /\ \E i \in EntriesOf("structure_chapters") : IsErrorSignal(executed[i])
    /\ node \in { "__end__", "returned", "exited" }

(***************************************************************************)
(* Structured Model Call: the kinds of failure                             *)
(***************************************************************************)

\* the kind of failure the call raises for an error of class c
FailureKind(c) ==
    CASE c \in TransientErrors -> "ConnectionError"
      [] c = "OutputParserException" -> "OutputParserException"
      [] c = "ValueError" -> "ValueError"
      [] OTHER -> "RuntimeError"

\* C34: a structured model call returns normally only when its last model
\* invocation succeeded; when the last invocation failed the call raises
\* exactly the kind chosen by the class of that error (transient ->
\* ConnectionError, parse error -> OutputParserException, validation error
\* -> ValueError, anything else -> RuntimeError), with that error as cause.
C34_FailureRaisedByKind ==
    llm_phase = "done" =>
        LET last == llm_script[llm_result.invocations]
        IN  /\ llm_result.returned <=> last = "ok"
            /\ last # "ok" =>
                   /\ llm_result.error.type = FailureKind(last)
                   /\ llm_result.error.cause.type = last
                   /\ llm_result.error.cause.message =
                          << last, "at attempt", ToString(llm_result.invocations) >>

\* a call whose attempts ended with a parse error after two errors of other
\* classes
C34_Witness ==
    /\ llm_phase = "done"
    /\ llm_script[1] = "OtherError"
    /\ llm_script[2] = "RateLimitError"
    /\ llm_script[3] = "OutputParserException"
    /\ ~llm_result.returned
    /\ llm_result.error.type = "OutputParserException"

\* a call that ended with an error of no listed class
C34_WitnessUnexpected ==
    /\ llm_phase = "done"
    /\ llm_script[llm_result.invocations] = "OtherError"
    /\ llm_result.error.type = "RuntimeError"

(***************************************************************************)
(* Aggregate Generated Pages: the sort key                                 *)
(***************************************************************************)

\* the runs of aggregate_generated_pages that passed the count checks and
\* sorted the pages
SortedRuns ==
    { i \in EntriesOf("aggregate_generated_pages") :
          ~executed[i].raises /\ "generated_pages" \in DOMAIN executed[i].update }

\* C35: whenever aggregate_generated_pages reaches its sort step, every page
\* of the list it sorts has a page_number, so no page is sorted with the
\* fallback key -1.
C35_SortNeverUsesFallback ==
    LET pages == CollectedPages
    IN  SortedRuns # {} =>
            /\ Len(pages) = TARGET_PAGE_COUNT
            /\ \A k \in 1..Len(pages) :
                   /\ ~IsNone(pages[k].page_number)
                   /\ SortKey(pages[k]) = pages[k].page_number[1]
                   /\ SortKey(pages[k]) # -1

\* the aggregator sorted twelve pages whose model answers carried no usable
\* page number
C35_Witness ==
    /\ SortedRuns # {}
    /\ Len(CollectedPages) = TARGET_PAGE_COUNT
    /\ \A i \in SortedRuns : executed[i].update.status = "generating_covers"
    /\ ~IsNone(state.generated_pages)

\* C36: for a page whose output file has to be generated (the file does not
\* exist, or --force), generate_illustration_for_page makes between one and
\* retry_count + 1 calls of generate_image; every call before the last one
\* failed, so no call follows a success; it reports success iff a call
\* succeeded; and when it fails it has made retry_count + 1 calls and
\* reports the error of the last of them.
C36_AttemptsBoundedLastErrorReported ==
    LET log == ill_log
    IN  \A i \in 1..Len(log) :
            (~log[i].existed \/ ill_args.force) =>
                /\ log[i].calls \in 1..(retry_count + 1)
                /\ \A k \in 1..(log[i].calls - 1) : log[i].script[k] = "error"
                /\ log[i].success <=> log[i].script[log[i].calls] = "success"
                /\ log[i].success <=>
                       \E k \in 1..(retry_count + 1) : log[i].script[k] = "success"
                /\ ~log[i].success =>
                       /\ log[i].calls = retry_count + 1
                       /\ log[i].error = ImageError(retry_count + 1)

\* a page that failed after three calls and a page that succeeded at its
\* third call
C36_Witness ==
    \E i \in 1..Len(ill_log) :
        /\ ~ill_log[i].success
        /\ ill_log[i].calls = retry_count + 1
        /\ ill_log[i].error = ImageError(3)

\* a page that succeeded at its last permitted call
C36_WitnessLastCall ==
    \E i \in 1..Len(ill_log) :
        /\ ill_log[i].success
        /\ ill_log[i].calls = retry_count + 1

\* the finishing step of a run that found failed_illustrations.json
LedgerRewritten ==
    /\ ill_phase = "run"
    /\ ill_phase' = "done"
    /\ ~IsNone(ill_failed_file)

\* page n is recorded in the ledger f
Recorded(f, n) ==
    /\ ~IsNone(f)
    /\ \E j \in 1..Len(f[1]) : f[1][j].page_number = n

\* the run produced the image of page n
Produced(log, n) ==
    \E i \in 1..Len(log) : log[i].success /\ log[i].output_path = FileOfPage(n)

\* C37: a run of the illustration script (batch, --page N, --retry-failed)
\* removes from failed_illustrations.json only the pages whose image it has
\* produced: a page recorded before the run is still recorded after it
\* unless the run processed that page successfully.
C37_LedgerEntryKeptUntilProduced ==
    [][ LedgerRewritten =>
            \A k \in 1..Len(ill_failed_file[1]) :
                \/ Produced(ill_log, ill_failed_file[1][k].page_number)
                \/ Recorded(ill_failed_file', ill_failed_file[1][k].page_number) ]_vars

\* the same statement for batch runs with the covers
C37_BatchRunKeepsLedger ==
    [][ (LedgerRewritten /\ ill_args.mode = "batch" /\ ~ill_args.skip_covers) =>
            \A k \in 1..Len(ill_failed_file[1]) :
                \/ Produced(ill_log, ill_failed_file[1][k].page_number)
                \/ Recorded(ill_failed_file', ill_failed_file[1][k].page_number) ]_vars

(***************************************************************************)
(* Generate Page Concepts: the final total check                           *)
(***************************************************************************)

\* the stage returned the error of its final total check (line 244)
TotalCheckFailed(e) ==
    /\ IsErrorSignal(e)
    /\ Mentions(e.update.error_details[1], "Total concepts generated")

\* C38: the final check of generate_page_concepts never fails: no run of the
\* stage returns the error "Total concepts generated ... does not match
\* target", and when the stage has passed the per-chapter checks of all
\* chapters the collected concepts are as many as the page counts of the
\* accepted chapters add up to, which is TARGET_PAGE_COUNT.
C38_TotalCheckNeverFails ==
    /\ \A i \in EntriesOf("generate_page_concepts") : ~TotalCheckFailed(executed[i])
    /\ ~IsNone(state.page_concepts) =>
           /\ Len(state.page_concepts[1]) = SumSeq(PageCounts(state.chapter_definitions[1]))
           /\ Len(state.page_concepts[1]) = TARGET_PAGE_COUNT

\* the stage went through two chapters and passed its final check
C38_Witness ==
    /\ ~IsNone(state.page_concepts)
    /\ Len(state.chapter_definitions[1]) = 2
    /\ \E i \in EntriesOf("generate_page_concepts") :
           ~IsErrorSignal(executed[i]) /\ executed[i].invocations = 2
====
